---------------------------- MODULE Spec2Model ----------------------------
(* A model of the scan / cache / generation core of CodebaseToText:        *)
(*   scanner.py    scan_directory_fast, _is_path_ignored,                   *)
(*                 _process_file_for_scan                                   *)
(*   caching.py    FileDetailCache                                          *)
(*   generator.py  generate_text_content_fast, _read_file_content_worker    *)
(*                 build_annotated_tree                                     *)
(*                                                                          *)
(* Conventions.  A character is a one-character string, a name (and a       *)
(* pattern) is a sequence of characters, a path is a sequence of names.     *)
(* An absolute path starts with the name of the scan root; the directory    *)
(* that holds the scan root is implicit.  Python's None is the empty        *)
(* sequence and a present value v is <<v>>.                                 *)
EXTENDS Integers, Sequences, FiniteSets, TLC

VARIABLES
    fs,                     \* the filesystem: the set of paths that exist
    faults,                 \* path -> what goes wrong when the scan touches it
    ignored_items,          \* the pattern set handed to the scan
    cancel_event,           \* threading.Event of the scan: is it set
    scanPc,                 \* position of the thread running scan_directory_fast
    walkTodo,               \* directories os.walk still has to yield, in order
    nodes,                  \* scan_directory_fast: nodes (key -> node)
    nodeOrder,              \* insertion order of the keys of nodes
    file_paths_to_process,  \* scan_directory_fast: file_paths_to_process
    futures,                \* future_to_path: file -> its future (state, result)
    yielded,                \* the future as_completed has just handed out
    scanResult,             \* what scan_directory_fast returned
    harvestOrder,           \* history: the files in the order they were harvested
    atCancel,               \* history: the futures when cancel_event was set
    disk,                   \* cache side: key -> what os.stat finds there now
    _cache,                 \* FileDetailCache._cache: key -> stored data
    lastCall,               \* the last call on the cache: arguments, state before, outcome
    files_for_content,      \* generate_text_content_fast: the selection list
    file_details_map,       \* generate_text_content_fast: key -> details
    files_to_read,          \* generate_text_content_fast: the paths handed to the pool
    genFutures,             \* future_to_path of the generation: task -> its future
    genYielded,             \* the task as_completed has just handed out
    genPc,                  \* position of the thread running generate_text_content_fast
    gen_cancel,             \* threading.Event of the generation: is it set
    final_content,          \* the blocks appended to final_content so far
    formatIdx,              \* index of the formatting loop
    delivered,              \* the documents handed to success_callback
    final_calls,            \* the number of calls of final_callback
    genExit,                \* how the generation left its try block
    is_annotated_mode,      \* generate_text_content_fast: the mode argument
    item_states,            \* generate_text_content_fast: key -> check state
    gen_files_for_tree,     \* generate_text_content_fast: the files_for_tree argument
    renderArgs,             \* build_annotated_tree: its arguments
    tree_dict,              \* build_annotated_tree: tree_dict
    renderIdx,              \* index of the loop over files_for_tree
    renderPc,               \* position inside build_annotated_tree
    tree_lines,             \* build_annotated_tree: tree_lines
    probe,                  \* a single call: the arguments of a worker or of _is_path_ignored
    scanAnswer,             \* what _process_file_for_scan returned for probe
    readAnswer,             \* what _read_file_content_worker built for probe
    ignoreAnswer,           \* what _is_path_ignored returned for probe
    cancel_scan,            \* DirectoryToTextApp.cancel_scan: is the event set
    scan_thread,            \* DirectoryToTextApp.scan_thread: the last thread started (0: None)
    current_operation,      \* DirectoryToTextApp.current_operation
    scanned_tree_data,      \* DirectoryToTextApp.scanned_tree_data: the scan it came from (0: None)
    threads,                \* the scan threads started so far
    after_queue,            \* the callbacks handed to root.after(0, ...), oldest first
    tree_view,              \* what the tree view shows
    cancel_requested,       \* the scans whose cancellation the user has confirmed
    tv_build,               \* which treeview_manager.py is loaded: "plain" (src) or "animated" (src/src)
    tv_items,               \* the Treeview widget: item id -> parent, node, values[1]
    tv_next,                \* the id the widget gives the next inserted item
    animation_running,      \* TreeViewManager.animation_running
    timers,                 \* the callbacks of root.after(ms, ...) not yet run, by due time
    scans_running,          \* scan threads started by _load_folder and not yet finished
    tv_loads,               \* the calls of _load_folder so far
    checked_files           \* what the last get_checked_files returned (<<>>: no call since the tree changed)

scanVars == <<fs, faults, ignored_items, cancel_event, scanPc, walkTodo, nodes, nodeOrder,
              file_paths_to_process, futures, yielded, scanResult,
              harvestOrder, atCancel>>

cacheVars == <<disk, _cache, lastCall>>

genVars == <<files_for_content, file_details_map, files_to_read, genFutures,
             genYielded, genPc, gen_cancel, final_content, formatIdx, delivered,
             final_calls, genExit, is_annotated_mode, item_states,
             gen_files_for_tree>>

renderVars == <<renderArgs, tree_dict, renderIdx, renderPc, tree_lines>>

probeVars == <<probe, scanAnswer, readAnswer, ignoreAnswer>>

appVars == <<cancel_scan, scan_thread, current_operation, scanned_tree_data, threads,
             after_queue, tree_view, cancel_requested>>

tvVars == <<tv_build, tv_items, tv_next, animation_running, timers, scans_running,
            tv_loads, checked_files>>

vars == <<scanVars, cacheVars, genVars, renderVars, probeVars, appVars, tvVars>>

-----------------------------------------------------------------------------
(* Bounds *)

\* ThreadPoolExecutor() takes min(32, cpu_count + 4) threads; the model's pool
PoolSize == 2

\* modification times are 1..MaxMtime
MaxMtime == 2

-----------------------------------------------------------------------------
(* Values *)

None == <<>>
Some(v) == <<v>>

\* constants.py
MAX_FILE_SIZE_MB == 10
MAX_FILE_SIZE_BYTES == MAX_FILE_SIZE_MB * 1024 * 1024

\* Names of the model's filesystem universe
nP  == <<"p">>
nB  == <<"b">>
nRB == <<"r", "b">>
nS  == <<"S">>
nO  == <<"o">>
nX  == <<"x">>
nAL == <<"a", ".", "l">>

\* Patterns
pS      == <<"S">>
pStarL  == <<"*", ".", "l">>
pBslash == <<"b", "/">>
pO      == <<"o">>
pP      == <<"p">>

\* ord(): the code points of the characters the model uses
Ord(c) ==
    CASE c = "LF" -> 10
      [] c = "*" -> 42
      [] c = "." -> 46
      [] c = "/" -> 47
      [] c = "?" -> 63
      [] c = "S" -> 83
      [] c = "a" -> 97
      [] c = "b" -> 98
      [] c = "l" -> 108
      [] c = "o" -> 111
      [] c = "p" -> 112
      [] c = "r" -> 114
      [] c = "s" -> 115
      [] c = "x" -> 120

\* str.lower() on one character
LowerChar(c) == IF c = "S" THEN "s" ELSE c

\* str.lower()
Lower(s) == [i \in 1..Len(s) |-> LowerChar(s[i])]

\* s < t for Python strings: lexicographic by code point
RECURSIVE StrLess(_, _)
StrLess(s, t) ==
    IF t = <<>> THEN FALSE
    ELSE IF s = <<>> THEN TRUE
    ELSE IF Ord(Head(s)) < Ord(Head(t)) THEN TRUE
    ELSE IF Ord(Head(s)) > Ord(Head(t)) THEN FALSE
    ELSE StrLess(Tail(s), Tail(t))

-----------------------------------------------------------------------------
(* Strings and paths (os.path, fnmatch) *)

\* sep.join(parts) with sep = "/"
RECURSIVE JoinSlash(_)
JoinSlash(parts) ==
    IF parts = <<>> THEN <<>>
    ELSE IF Len(parts) = 1 THEN parts[1]
    ELSE parts[1] \o <<"/">> \o JoinSlash(Tail(parts))

\* os.path.basename(s): what follows the last "/"
RECURSIVE Basename(_)
Basename(s) ==
    IF \E i \in 1..Len(s) : s[i] = "/"
    THEN Basename(Tail(s))
    ELSE s

\* s.startswith(prefix)
StartsWith(s, prefix) ==
    /\ Len(prefix) <= Len(s)
    /\ SubSeq(s, 1, Len(prefix)) = prefix

\* s.endswith("/")
EndsWithSlash(s) == s # <<>> /\ s[Len(s)] = "/"

\* s.rstrip("/")
RECURSIVE RStripSlash(_)
RStripSlash(s) ==
    IF EndsWithSlash(s) THEN RStripSlash(SubSeq(s, 1, Len(s) - 1)) ELSE s

\* fnmatch.fnmatch(name, pat) on POSIX: the whole of name against pat, where
\* "*" stands for any run of characters ("/" included) and "?" for one
RECURSIVE fnmatch(_, _)
fnmatch(name, pat) ==
    IF pat = <<>> THEN name = <<>>
    ELSE IF Head(pat) = "*"
         THEN \/ fnmatch(name, Tail(pat))
              \/ name # <<>> /\ fnmatch(Tail(name), pat)
    ELSE IF Head(pat) = "?"
         THEN name # <<>> /\ fnmatch(Tail(name), Tail(pat))
    ELSE name # <<>> /\ Head(name) = Head(pat) /\ fnmatch(Tail(name), Tail(pat))

\* scanner.py _is_path_ignored; relative_path is a string with "/" separators
_is_path_ignored(relative_path, ignored_patterns) ==
    \E pattern \in ignored_patterns :
        \/ fnmatch(Basename(relative_path), pattern)
        \/ fnmatch(relative_path, pattern)
        \/ /\ EndsWithSlash(pattern)
           /\ StartsWith(relative_path, RStripSlash(pattern))

\* The scan root: os.path.abspath(path)
scan_root_path == <<nP>>

\* os.path.relpath(p, scan_root_path) for p at or below the scan root
relpath(p) ==
    IF p = scan_root_path THEN <<".">>
    ELSE JoinSlash(SubSeq(p, Len(scan_root_path) + 1, Len(p)))

\* os.path.dirname for a path of at least one name
dirname(p) == SubSeq(p, 1, Len(p) - 1)

\* the last name of a path (os.path.basename of the joined path)
PathName(p) == p[Len(p)]

\* os.path.normpath on the parts of an absolute path: "." parts are dropped,
\* a ".." part drops the part before it
RECURSIVE normpath(_, _)
normpath(parts, acc) ==
    IF parts = <<>> THEN acc
    ELSE IF Head(parts) = <<".">> THEN normpath(Tail(parts), acc)
    ELSE IF Head(parts) = <<".", ".">>
         THEN normpath(Tail(parts),
                       IF acc = <<>> THEN acc ELSE SubSeq(acc, 1, Len(acc) - 1))
    ELSE normpath(Tail(parts), Append(acc, Head(parts)))

\* os.path.normcase on POSIX returns its argument
normcase(p) == p

\* os.path.normcase(os.path.abspath(p)): the key of nodes, of the cache and
\* of file_details_map
NormKey(p) == normcase(normpath(p, <<>>))

-----------------------------------------------------------------------------
(* The filesystem *)

\* Every entry a model filesystem may hold, in the order os.scandir lists them
ListingOrder ==
    << <<nP, nS>>, <<nP, nAL>>, <<nP, nRB>>, <<nP, nB>>, <<nP, nB, nO>>,
       <<nP, nB, nS>>, <<nP, nB, nS, nX>>, <<nP, nRB, nO>> >>

Universe == {ListingOrder[i] : i \in 1..Len(ListingOrder)} \cup {scan_root_path}

UDirs == {scan_root_path, <<nP, nRB>>, <<nP, nB>>, <<nP, nB, nS>>}

\* the files of the universe
UFiles == Universe \ UDirs

\* os.path.isdir / DirEntry.is_dir
IsDir(p) == p \in UDirs

\* What the files hold: size in bytes, offset of the first null byte (0: none),
\* whether open(.., 'rb'), open(.., 'r') and getsize succeed, and the decoded text (abridged for the two files
\* at and above the size limit)
FileAttr(p) ==
    CASE p = <<nP, nS>> ->
           [size |-> 0, first_null |-> 0, open_ok |-> TRUE, read_ok |-> TRUE,
            stat_ok |-> TRUE, errno |-> "", text |-> <<>>]
      [] p = <<nP, nB, nO>> ->
           [size |-> 3, first_null |-> 0, open_ok |-> TRUE, read_ok |-> TRUE,
            stat_ok |-> TRUE, errno |-> "", text |-> <<"x", "LF", "x">>]
      [] p = <<nP, nB, nS, nX>> ->
           [size |-> 2, first_null |-> 1, open_ok |-> TRUE, read_ok |-> TRUE,
            stat_ok |-> TRUE, errno |-> "", text |-> <<"x">>]
      [] p = <<nP, nRB, nO>> ->
           [size |-> MAX_FILE_SIZE_BYTES, first_null |-> 0, open_ok |-> TRUE, read_ok |-> TRUE,
            stat_ok |-> TRUE, errno |-> "", text |-> <<>>]
      [] p = <<nP, nAL>> ->
           [size |-> MAX_FILE_SIZE_BYTES + 1, first_null |-> 0, open_ok |-> TRUE, read_ok |-> TRUE,
            stat_ok |-> TRUE, errno |-> "",
            text |-> <<"x">>]

\* A filesystem holds the parent of every entry it holds
IsFilesystem(F) ==
    \A p \in F : p = scan_root_path \/ (dirname(p) \in F /\ IsDir(dirname(p)))

Filesystems == {F \in SUBSET Universe : IsFilesystem(F)}

\* The pattern sets the scan is run with
PatternSets == { {}, {pS}, {pStarL}, {pBslash}, {pO, pStarL}, {pS, pStarL}, {pP} }

\* os.scandir(d): the entries of directory d, in listing order
RECURSIVE SelectSeq2(_, _, _)
SelectSeq2(seq, F, d) ==
    IF seq = <<>> THEN <<>>
    ELSE IF Head(seq) \in F /\ dirname(Head(seq)) = d
         THEN <<Head(seq)>> \o SelectSeq2(Tail(seq), F, d)
         ELSE SelectSeq2(Tail(seq), F, d)

scandir(F, d) == SelectSeq2(ListingOrder, F, d)

\* a subsequence by a set of wanted elements
RECURSIVE Keep(_, _)
Keep(seq, S) ==
    IF seq = <<>> THEN <<>>
    ELSE IF Head(seq) \in S THEN <<Head(seq)>> \o Keep(Tail(seq), S)
    ELSE Keep(Tail(seq), S)

Range(seq) == {seq[i] : i \in 1..Len(seq)}

-----------------------------------------------------------------------------
(* File classification: scanner.py _process_file_for_scan *)

\* content.count("\n")
RECURSIVE CountLF(_)
CountLF(s) ==
    IF s = <<>> THEN 0
    ELSE (IF Head(s) = "LF" THEN 1 ELSE 0) + CountLF(Tail(s))

\* file_processor_utils.py: the default of _is_binary_file's chunk_size
chunk_size == 1024

\* (mutant) the whole file is searched for a null byte
_is_binary_file_WholeFile(attr) ==
    IF ~attr.open_ok THEN TRUE
    ELSE attr.first_null # 0

\* file_processor_utils.py _is_binary_file: a null byte among the first
\* chunk_size bytes, or an open() that fails
_is_binary_file(attr) ==
    IF ~attr.open_ok THEN TRUE
    ELSE attr.first_null # 0 /\ attr.first_null <= chunk_size

\* scanner.py lines 66-80 on a file with attributes attr: os.path.getsize may
\* raise OSError (stat_ok false), then the size check, the sniff, the read
ClassifyAttr(attr) ==
    IF ~attr.stat_ok
    THEN [line_count |-> None, char_count |-> None, error |-> Some(attr.errno),
          content |-> None, opens |-> <<>>]
    ELSE IF attr.size > MAX_FILE_SIZE_BYTES
    THEN [line_count |-> None, char_count |-> None, error |-> Some("> 10MB"),
          content |-> None, opens |-> <<>>]
    ELSE IF _is_binary_file(attr)
    THEN [line_count |-> None, char_count |-> None, error |-> Some("binary"),
          content |-> None, opens |-> <<"rb">>]
    ELSE IF ~attr.read_ok
    THEN [line_count |-> None, char_count |-> None, error |-> Some(attr.errno),
          content |-> None, opens |-> <<"rb", "r">>]
    ELSE [line_count |-> Some(CountLF(attr.text) + 1),
          char_count |-> Some(Len(attr.text)), error |-> None,
          content |-> Some(attr.text), opens |-> <<"rb", "r">>]

\* what goes wrong with path p: "EACCES", the directory cannot be listed or
\* the file cannot be stat'd and opened; "raise", the worker raises an
\* exception that is neither OSError nor FileProcessingError; "none"
Fault(p) == IF p \in DOMAIN faults THEN faults[p] ELSE "none"

\* what Future.result() holds when the worker raised
Raised == [raised |-> TRUE]

\* (mutant) the binary sniff is made before the size check
_process_file_for_scan_SniffFirst(file_path) ==
    LET attr == FileAttr(file_path) IN
    IF _is_binary_file(attr)
    THEN [line_count |-> None, char_count |-> None, error |-> Some("binary"),
          content |-> None, opens |-> <<"rb">>]
    ELSE IF attr.size > MAX_FILE_SIZE_BYTES
    THEN [line_count |-> None, char_count |-> None, error |-> Some("> 10MB"),
          content |-> None, opens |-> <<"rb">>]
    ELSE [line_count |-> Some(CountLF(attr.text) + 1),
          char_count |-> Some(Len(attr.text)), error |-> None,
          content |-> Some(attr.text), opens |-> <<"rb", "r">>]

\* scanner.py _process_file_for_scan: the details of one file; opens (not part
\* of the dict) lists the open() calls the worker made, by mode
_process_file_for_scan(file_path) ==
    IF Fault(file_path) = "raise" THEN Raised
    ELSE IF Fault(file_path) = "EACCES"
    THEN ClassifyAttr([FileAttr(file_path) EXCEPT !.stat_ok = FALSE, !.open_ok = FALSE,
                                                  !.read_ok = FALSE, !.errno = "EACCES"])
    ELSE ClassifyAttr(FileAttr(file_path))

-----------------------------------------------------------------------------
(* scan_directory_fast: the walk *)

DirNode(p, ign) ==
    [path |-> p, name |-> PathName(p), is_dir |-> TRUE, is_ignored |-> ign,
     details |-> None]

FileNode(p, ign) ==
    [path |-> p, name |-> PathName(p), is_dir |-> FALSE, is_ignored |-> ign,
     details |-> None]

\* nodes[k] = v on an insertion-ordered dict st = [map, order]
Put(st, k, v) ==
    [map   |-> (k :> v) @@ st.map,
     order |-> IF k \in DOMAIN st.map THEN st.order ELSE Append(st.order, k)]

\* (mutant) entries that match a pattern get no node
RECURSIVE PutEntries_SkipIgnored(_, _, _)
PutEntries_SkipIgnored(st, entries, pats) ==
    IF entries = <<>> THEN st
    ELSE LET e   == Head(entries)
             ign == _is_path_ignored(relpath(e), pats)
             nd  == IF IsDir(e) THEN DirNode(e, ign) ELSE FileNode(e, ign)
         IN PutEntries_SkipIgnored(IF ign THEN st ELSE Put(st, NormKey(e), nd),
                                   Tail(entries), pats)

\* lines 131-143 and 146-155: one node per listed entry, in listing order
RECURSIVE PutEntries(_, _, _)
PutEntries(st, entries, pats) ==
    IF entries = <<>> THEN st
    ELSE LET e   == Head(entries)
             ign == _is_path_ignored(relpath(e), pats)
             nd  == IF IsDir(e) THEN DirNode(e, ign) ELSE FileNode(e, ign)
         IN PutEntries(Put(st, NormKey(e), nd), Tail(entries), pats)

\* lines 124-128: the node of the directory being walked, unless present
PutRoot(st, root) ==
    IF NormKey(root) \in DOMAIN st.map THEN st
    ELSE Put(st, NormKey(root), DirNode(root, FALSE))

\* lines 136-137: the sub-directories os.walk will still descend into
PruneDirs(dirs, pats) ==
    Keep(dirs, {d \in Range(dirs) : ~_is_path_ignored(relpath(d), pats)})

\* (mutant) every listed file is handed to the worker pool
EligibleFiles_All(files, pats) == files

\* lines 156-157: the files handed to the worker pool
EligibleFiles(files, pats) ==
    Keep(files, {f \in Range(files) : ~_is_path_ignored(relpath(f), pats)})

\* lines 117-118: is the directory os.walk yielded skipped
RootSkipped(root, pats) ==
    relpath(root) # <<".">> /\ _is_path_ignored(relpath(root), pats)

-----------------------------------------------------------------------------
(* scan_directory_fast: linking and sorting, lines 174-195 *)

\* (mutant) the names are compared as they are spelled
KeyLess_CaseSensitive(a, b) ==
    \/ a.is_dir /\ ~b.is_dir
    \/ a.is_dir = b.is_dir /\ StrLess(a.name, b.name)

\* the sort key (not is_dir, name.lower()) of a is below that of b
KeyLess(a, b) ==
    \/ a.is_dir /\ ~b.is_dir
    \/ a.is_dir = b.is_dir /\ StrLess(Lower(a.name), Lower(b.name))

\* x put behind every element whose key is not above its own
RECURSIVE InsertStable(_, _, _)
InsertStable(sorted, x, map) ==
    IF sorted = <<>> THEN <<x>>
    ELSE IF KeyLess(map[x], map[Head(sorted)]) THEN <<x>> \o sorted
    ELSE <<Head(sorted)>> \o InsertStable(Tail(sorted), x, map)

\* list.sort(key = ...): a stable sort of keys by the key of their nodes
RECURSIVE SortChildren(_, _)
SortChildren(keys, map) ==
    IF keys = <<>> THEN <<>>
    ELSE InsertStable(SortChildren(SubSeq(keys, 1, Len(keys) - 1), map),
                      keys[Len(keys)], map)

\* (mutant) a node is appended to each of its ancestors
LinkedChildren_Ancestors(k, map, order, rootKey) ==
    Keep(order, {c \in DOMAIN map :
                    c # rootKey /\ Len(c) > Len(k) /\ SubSeq(c, 1, Len(k)) = k})

\* lines 176-182: the children appended to the node of key k, in the order
\* of nodes.items()
LinkedChildren(k, map, order, rootKey) ==
    Keep(order, {c \in DOMAIN map :
                    c # rootKey /\ NormKey(dirname(map[c].path)) = k})

\* the node of key k with its children linked and sorted (lines 185-189)
RECURSIVE BuildTree(_, _, _, _)
BuildTree(k, map, order, rootKey) ==
    LET kids == LinkedChildren(k, map, order, rootKey)
        srt  == IF map[k].is_dir THEN SortChildren(kids, map) ELSE kids
    IN [path |-> map[k].path, name |-> map[k].name, is_dir |-> map[k].is_dir,
        is_ignored |-> map[k].is_ignored, details |-> map[k].details,
        children |-> [i \in 1..Len(srt) |-> BuildTree(srt[i], map, order, rootKey)]]

\* lines 191-195: root_node = nodes.get(norm_root_path)
RootNode(map, order) ==
    IF NormKey(scan_root_path) \in DOMAIN map
    THEN Some(BuildTree(NormKey(scan_root_path), map, order, NormKey(scan_root_path)))
    ELSE None

-----------------------------------------------------------------------------
(* caching.py FileDetailCache *)

\* the files the cache is asked about, as the callers spell them
CachePaths == { <<nP, nAL>>, <<nP, <<".">>, nAL>>, <<nP, nB, nO>> }

CacheKeys == {NormKey(p) : p \in CachePaths}

\* what os.stat finds at a key: a file with its mtime, nothing (ENOENT), or a
\* failure of another kind (EACCES: a parent directory may not be searched)
StatStates ==
    [st : {"file"}, mtime : 1..MaxMtime] \cup [st : {"missing", "denied"}, mtime : {0}]

\* the payloads handed to set
Payloads ==
    { [content |-> Some(<<"x">>), line_count |-> Some(1), error |-> None],
      [content |-> None, line_count |-> None, error |-> Some("EACCES")] }

\* os.path.getmtime(k): a value, or the exception it raises
getmtime(dsk, k) ==
    CASE dsk[k].st = "file"    -> [raises |-> "no", mtime |-> dsk[k].mtime]
      [] dsk[k].st = "missing" -> [raises |-> "FileNotFoundError", mtime |-> 0]
      [] dsk[k].st = "denied"  -> [raises |-> "PermissionError", mtime |-> 0]

\* m without the key k
Without(m, k) == [x \in DOMAIN m \ {k} |-> m[x]]

\* (mutant) get keeps the entry of a file that is gone
cache_get_KeepsMissing(cache, dsk, file_path) ==
    LET norm_path == NormKey(file_path)
        t == getmtime(dsk, norm_path)
    IN IF norm_path \in DOMAIN cache
       THEN IF t.raises = "no"
            THEN IF t.mtime = cache[norm_path].mtime
                 THEN [cache |-> cache, ret |-> Some(cache[norm_path]), raised |-> "no"]
                 ELSE [cache |-> cache, ret |-> None, raised |-> "no"]
            ELSE IF t.raises = "FileNotFoundError"
            THEN [cache |-> cache, ret |-> None, raised |-> "no"]
            ELSE [cache |-> cache, ret |-> None, raised |-> t.raises]
       ELSE [cache |-> cache, ret |-> None, raised |-> "no"]

\* (mutant) get drops an entry whose mtime no longer matches
cache_get_DropsStale(cache, dsk, file_path) ==
    LET norm_path == NormKey(file_path)
        t == getmtime(dsk, norm_path)
    IN IF norm_path \in DOMAIN cache
       THEN IF t.raises = "no"
            THEN IF t.mtime = cache[norm_path].mtime
                 THEN [cache |-> cache, ret |-> Some(cache[norm_path]), raised |-> "no"]
                 ELSE [cache |-> Without(cache, norm_path), ret |-> None, raised |-> "no"]
            ELSE IF t.raises = "FileNotFoundError"
            THEN [cache |-> Without(cache, norm_path), ret |-> None, raised |-> "no"]
            ELSE [cache |-> cache, ret |-> None, raised |-> t.raises]
       ELSE [cache |-> cache, ret |-> None, raised |-> "no"]

\* FileDetailCache.get: the cache after the call, what it returns, and the
\* exception that leaves it (only FileNotFoundError is caught)
cache_get(cache, dsk, file_path) ==
    LET norm_path == NormKey(file_path)
        t == getmtime(dsk, norm_path)
    IN IF norm_path \in DOMAIN cache
       THEN IF t.raises = "no"
            THEN IF t.mtime = cache[norm_path].mtime
                 THEN [cache |-> cache, ret |-> Some(cache[norm_path]), raised |-> "no"]
                 ELSE [cache |-> cache, ret |-> None, raised |-> "no"]
            ELSE IF t.raises = "FileNotFoundError"
            THEN [cache |-> Without(cache, norm_path), ret |-> None, raised |-> "no"]
            ELSE [cache |-> cache, ret |-> None, raised |-> t.raises]
       ELSE [cache |-> cache, ret |-> None, raised |-> "no"]

\* (mutant) set keeps the new entry alone
cache_set_Exclusive(cache, dsk, file_path, data) ==
    LET norm_path == NormKey(file_path)
        t == getmtime(dsk, norm_path)
    IN IF t.raises = "no"
       THEN [cache |-> (norm_path :> [data |-> data, mtime |-> t.mtime]),
             ret |-> None, raised |-> "no"]
       ELSE IF t.raises = "FileNotFoundError"
       THEN [cache |-> cache, ret |-> None, raised |-> "no"]
       ELSE [cache |-> cache, ret |-> None, raised |-> t.raises]

\* FileDetailCache.set: data gets its mtime and is stored under the key,
\* unless getmtime raises (only FileNotFoundError is caught)
cache_set(cache, dsk, file_path, data) ==
    LET norm_path == NormKey(file_path)
        t == getmtime(dsk, norm_path)
    IN IF t.raises = "no"
       THEN [cache |-> (norm_path :> [data |-> data, mtime |-> t.mtime]) @@ cache,
             ret |-> None, raised |-> "no"]
       ELSE IF t.raises = "FileNotFoundError"
       THEN [cache |-> cache, ret |-> None, raised |-> "no"]
       ELSE [cache |-> cache, ret |-> None, raised |-> t.raises]

\* FileDetailCache.clear
cache_clear(cache) == <<>>

\* the cache of a specification that does not use it
CacheIdle ==
    /\ disk = [k \in CacheKeys |-> [st |-> "missing", mtime |-> 0]]
    /\ _cache = <<>>
    /\ lastCall = [op |-> "none"]

\* FileDetailCache.__init__, on a disk in any state
CacheInit ==
    /\ disk \in [CacheKeys -> StatStates]
    /\ _cache = <<>>
    /\ lastCall = [op |-> "none"]

Call(op, file_path, data, out) ==
    [op |-> op, path |-> file_path, data |-> data, pre |-> _cache,
     stat |-> disk[NormKey(file_path)], ret |-> out.ret, raised |-> out.raised]

Get(file_path) ==
    LET out == cache_get(_cache, disk, file_path) IN
    /\ _cache' = out.cache
    /\ lastCall' = Call("get", file_path, None, out)
    /\ UNCHANGED disk
    /\ UNCHANGED <<scanVars, genVars, renderVars, probeVars, appVars, tvVars>>

Set(file_path, data) ==
    LET out == cache_set(_cache, disk, file_path, data) IN
    /\ _cache' = out.cache
    /\ lastCall' = Call("set", file_path, Some(data), out)
    /\ UNCHANGED disk
    /\ UNCHANGED <<scanVars, genVars, renderVars, probeVars, appVars, tvVars>>

Clear ==
    /\ _cache' = cache_clear(_cache)
    /\ lastCall' = [op |-> "clear"]
    /\ UNCHANGED disk
    /\ UNCHANGED <<scanVars, genVars, renderVars, probeVars, appVars, tvVars>>

\* the world outside: a file is written or touched (any mtime, an earlier one
\* included), deleted, created, or its directory closed to the process
DiskChange(k, s) ==
    /\ disk[k] # s
    /\ disk' = [disk EXCEPT ![k] = s]
    /\ UNCHANGED <<_cache, lastCall>>
    /\ UNCHANGED <<scanVars, genVars, renderVars, probeVars, appVars, tvVars>>

CacheNext ==
    \/ \E p \in CachePaths : Get(p)
    \/ \E p \in CachePaths : \E d \in Payloads : Set(p, d)
    \/ Clear
    \/ \E k \in CacheKeys : \E s \in StatStates : DiskChange(k, s)

ScanIdle ==
    /\ fs = {}
    /\ faults = <<>>
    /\ ignored_items = {}
    /\ cancel_event = FALSE
    /\ scanPc = "idle"
    /\ walkTodo = <<>>
    /\ nodes = <<>>
    /\ nodeOrder = <<>>
    /\ file_paths_to_process = <<>>
    /\ futures = <<>>
    /\ yielded = None
    /\ scanResult = None
    /\ harvestOrder = <<>>
    /\ atCancel = None

\* the generation of a specification that does not use it
GenIdle ==
    /\ files_for_content = <<>>
    /\ file_details_map = <<>>
    /\ files_to_read = <<>>
    /\ genFutures = <<>>
    /\ genYielded = None
    /\ genPc = "idle"
    /\ gen_cancel = FALSE
    /\ final_content = <<>>
    /\ formatIdx = 0
    /\ delivered = <<>>
    /\ final_calls = 0
    /\ genExit = "none"
    /\ is_annotated_mode = FALSE
    /\ item_states = <<>>
    /\ gen_files_for_tree = <<>>

\* the renderer of a specification that does not run it on its own
RenderIdle ==
    /\ renderArgs = <<>>
    /\ tree_dict = <<>>
    /\ renderIdx = 0
    /\ renderPc = "idle"
    /\ tree_lines = <<>>

\* the application of a specification that does not use it
AppIdle ==
    /\ cancel_scan = FALSE
    /\ scan_thread = 0
    /\ current_operation = "none"
    /\ scanned_tree_data = 0
    /\ threads = <<>>
    /\ after_queue = <<>>
    /\ tree_view = [shows |-> "nothing"]
    /\ cancel_requested = {}

\* the tree view of a specification that does not use it
TvIdle ==
    /\ tv_build = "plain"
    /\ tv_items = <<>>
    /\ tv_next = 1
    /\ animation_running = FALSE
    /\ timers = <<>>
    /\ scans_running = 0
    /\ tv_loads = 0
    /\ checked_files = <<>>

\* no single call is looked at
ProbeIdle ==
    /\ probe = <<>>
    /\ scanAnswer = None
    /\ readAnswer = None
    /\ ignoreAnswer = None

InitCache == CacheInit /\ ScanIdle /\ GenIdle /\ RenderIdle /\ ProbeIdle /\ AppIdle /\ TvIdle

SpecCache == InitCache /\ [][CacheNext]_vars

-----------------------------------------------------------------------------
(* scan_directory_fast: the state machine *)

Fut(st, res) == [st |-> st, result |-> res]

Running == {f \in DOMAIN futures : futures[f].st = "running"}
Queued  == {f \in DOMAIN futures : futures[f].st = "queued"}
Done    == {f \in DOMAIN futures : futures[f].st \in {"done", "yielded", "harvested"}}
Harvested == {f \in DOMAIN futures : futures[f].st = "harvested"}
\* the futures as_completed has not handed out yet
Pending == {f \in DOMAIN futures : futures[f].st \in {"queued", "running", "done"}}

ScanInit ==
    /\ fs \in Filesystems
    /\ faults = <<>>
    /\ ignored_items \in PatternSets
    /\ cancel_event = FALSE
    /\ scanPc = "start"
    /\ walkTodo = <<>>
    /\ nodes = <<>>
    /\ nodeOrder = <<>>
    /\ file_paths_to_process = <<>>
    /\ futures = <<>>
    /\ yielded = None
    /\ scanResult = None
    /\ harvestOrder = <<>>
    /\ atCancel = None

\* lines 105-110: not a directory -> None; else the walk starts at the root
ScanStart ==
    /\ scanPc = "start"
    /\ IF scan_root_path \in fs /\ IsDir(scan_root_path)
       THEN /\ scanPc' = "walk"
            /\ walkTodo' = <<scan_root_path>>
       ELSE /\ scanPc' = "done"
            /\ walkTodo' = <<>>
    /\ UNCHANGED <<fs, faults, ignored_items, cancel_event, nodes, nodeOrder,
                   file_paths_to_process, futures, yielded, scanResult, harvestOrder, atCancel>>
    /\ UNCHANGED <<cacheVars, genVars, renderVars, probeVars, appVars, tvVars>>

\* lines 112-157: one iteration of the os.walk loop
WalkStep ==
    /\ scanPc = "walk"
    /\ walkTodo # <<>>
    /\ LET root    == Head(walkTodo)
           listing == scandir(fs, root)
           dirs    == Keep(listing, {e \in Range(listing) : IsDir(e)})
           files   == Keep(listing, {e \in Range(listing) : ~IsDir(e)})
           st0     == [map |-> nodes, order |-> nodeOrder]
           st1     == PutEntries(PutEntries(PutRoot(st0, root), dirs, ignored_items),
                                 files, ignored_items)
       IN IF Fault(root) = "EACCES"
          THEN \* os.walk: scandir fails, onerror is None, nothing is yielded
               /\ walkTodo' = Tail(walkTodo)
               /\ UNCHANGED <<scanPc, scanResult, nodes, nodeOrder,
                              file_paths_to_process>>
          ELSE IF cancel_event
          THEN /\ scanPc' = "done"
               /\ scanResult' = None
               /\ UNCHANGED <<walkTodo, nodes, nodeOrder, file_paths_to_process>>
          ELSE IF RootSkipped(root, ignored_items)
          THEN /\ walkTodo' = Tail(walkTodo)
               /\ UNCHANGED <<scanPc, scanResult, nodes, nodeOrder,
                              file_paths_to_process>>
          ELSE /\ nodes' = st1.map
               /\ nodeOrder' = st1.order
               /\ file_paths_to_process' =
                      file_paths_to_process \o EligibleFiles(files, ignored_items)
               /\ walkTodo' = PruneDirs(dirs, ignored_items) \o Tail(walkTodo)
               /\ UNCHANGED <<scanPc, scanResult>>
    /\ UNCHANGED <<fs, faults, ignored_items, cancel_event, futures, yielded, harvestOrder, atCancel>>
    /\ UNCHANGED <<cacheVars, genVars, renderVars, probeVars, appVars, tvVars>>

\* lines 160-161: the pool is made and every eligible file is submitted
SubmitAll ==
    /\ scanPc = "walk"
    /\ walkTodo = <<>>
    /\ futures' = [f \in Range(file_paths_to_process) |-> Fut("queued", None)]
    /\ scanPc' = "harvest"
    /\ UNCHANGED <<fs, faults, ignored_items, cancel_event, walkTodo, nodes, nodeOrder,
                   file_paths_to_process, yielded, scanResult, harvestOrder, atCancel>>
    /\ UNCHANGED <<cacheVars, genVars, renderVars, probeVars, appVars, tvVars>>

\* the work queue is first in, first out: the next file a free thread takes
NextQueued ==
    LET q == Keep(file_paths_to_process, Queued) IN
    IF q = <<>> THEN None ELSE Some(Head(q))

\* a pool thread takes the next queued work item
WorkerStart ==
    /\ NextQueued # None
    /\ Cardinality(Running) < PoolSize
    /\ futures' = [futures EXCEPT ![NextQueued[1]] = Fut("running", None)]
    /\ UNCHANGED <<fs, faults, ignored_items, cancel_event, scanPc, walkTodo, nodes,
                   nodeOrder, file_paths_to_process, yielded, scanResult, harvestOrder, atCancel>>
    /\ UNCHANGED <<cacheVars, genVars, renderVars, probeVars, appVars, tvVars>>

\* a pool thread finishes _process_file_for_scan and sets the future's result
WorkerFinish(f) ==
    /\ f \in Running
    /\ futures' = [futures EXCEPT ![f] = Fut("done", Some(_process_file_for_scan(f)))]
    /\ UNCHANGED <<fs, faults, ignored_items, cancel_event, scanPc, walkTodo, nodes,
                   nodeOrder, file_paths_to_process, yielded, scanResult, harvestOrder, atCancel>>
    /\ UNCHANGED <<cacheVars, genVars, renderVars, probeVars, appVars, tvVars>>

\* (mutant) shutdown without cancel_futures: the queue is left as it is
CancelFutures_KeepQueue(futs) == futs

\* executor.shutdown(wait=False, cancel_futures=True): queued futures are cancelled
CancelFutures(futs) ==
    [f \in DOMAIN futs |->
        IF futs[f].st = "queued" THEN Fut("cancelled", None) ELSE futs[f]]

\* lines 162-165: as_completed hands out a finished future; the cancel check
AsCompletedNext(f) ==
    /\ scanPc = "harvest"
    /\ f \in DOMAIN futures /\ futures[f].st = "done"
    /\ IF cancel_event
       THEN /\ futures' = CancelFutures(futures)
            /\ scanPc' = "exit_wait"
            /\ yielded' = None
       ELSE /\ futures' = [futures EXCEPT ![f].st = "yielded"]
            /\ scanPc' = "result"
            /\ yielded' = Some(f)
    /\ UNCHANGED <<fs, faults, ignored_items, cancel_event, walkTodo, nodes, nodeOrder,
                   file_paths_to_process, scanResult, harvestOrder, atCancel>>
    /\ UNCHANGED <<cacheVars, genVars, renderVars, probeVars, appVars, tvVars>>

\* (mutant) the result goes to the first file node still without details,
\* not to the node of its own path
UpdateNode_ByArrival(map, file_path, details) ==
    LET open == {k \in DOMAIN map :
                    ~map[k].is_dir /\ ~map[k].is_ignored /\ map[k].details = None}
        first == CHOOSE k \in open :
                    \A k2 \in open : k2 = k \/ StrLess(JoinSlash(k), JoinSlash(k2))
    IN IF open = {} THEN map ELSE [map EXCEPT ![first].details = Some(details)]

\* lines 168-170: nodes[norm_path].update(details)
UpdateNode(map, file_path, details) ==
    IF NormKey(file_path) \in DOMAIN map
    THEN [map EXCEPT ![NormKey(file_path)].details = Some(details)]
    ELSE map

\* lines 166-172: the result of the future handed out is written to its node
HarvestResult ==
    /\ scanPc = "result"
    /\ LET f == yielded[1] IN
       /\ nodes' = IF futures[f].result[1] = Raised
                   THEN nodes
                   ELSE UpdateNode(nodes, f, futures[f].result[1])
       /\ futures' = [futures EXCEPT ![f].st = "harvested"]
    /\ harvestOrder' = Append(harvestOrder, yielded[1])
    /\ yielded' = None
    /\ scanPc' = "harvest"
    /\ UNCHANGED <<fs, faults, ignored_items, cancel_event, walkTodo, nodeOrder,
                   file_paths_to_process, scanResult, atCancel>>
    /\ UNCHANGED <<cacheVars, genVars, renderVars, probeVars, appVars, tvVars>>

\* (mutant) the cancelled scan hands back what it has linked so far
ExecutorExit_PartialTree ==
    /\ scanPc = "exit_wait"
    /\ Running = {}
    /\ scanPc' = "done"
    /\ scanResult' = RootNode(nodes, nodeOrder)
    /\ UNCHANGED <<fs, faults, ignored_items, cancel_event, walkTodo, nodes, nodeOrder,
                   file_paths_to_process, futures, yielded, harvestOrder, atCancel>>
    /\ UNCHANGED <<cacheVars, genVars, renderVars, probeVars, appVars, tvVars>>

\* leaving the with block after the cancelled return: shutdown(wait=True)
\* waits for the running work items, then None is returned
ExecutorExit ==
    /\ scanPc = "exit_wait"
    /\ Running = {}
    /\ scanPc' = "done"
    /\ scanResult' = None
    /\ UNCHANGED <<fs, faults, ignored_items, cancel_event, walkTodo, nodes, nodeOrder,
                   file_paths_to_process, futures, yielded, harvestOrder, atCancel>>
    /\ UNCHANGED <<cacheVars, genVars, renderVars, probeVars, appVars, tvVars>>

\* lines 174-195: every future was handed out; link, sort, return the root
LinkAndReturn ==
    /\ scanPc = "harvest"
    /\ \A f \in DOMAIN futures : futures[f].st = "harvested"
    /\ scanResult' = RootNode(nodes, nodeOrder)
    /\ scanPc' = "done"
    /\ UNCHANGED <<fs, faults, ignored_items, cancel_event, walkTodo, nodes, nodeOrder,
                   file_paths_to_process, futures, yielded, harvestOrder, atCancel>>
    /\ UNCHANGED <<cacheVars, genVars, renderVars, probeVars, appVars, tvVars>>

\* another thread calls cancel_event.set() while the scan runs
SetCancel ==
    /\ ~cancel_event
    /\ scanPc # "done"
    /\ cancel_event' = TRUE
    /\ atCancel' = Some([done |-> Done, harvested |-> Harvested, running |-> Running,
                         pending |-> Pending, pc |-> scanPc])
    /\ UNCHANGED <<fs, faults, ignored_items, scanPc, walkTodo, nodes, nodeOrder,
                   file_paths_to_process, futures, yielded, scanResult, harvestOrder>>
    /\ UNCHANGED <<cacheVars, genVars, renderVars, probeVars, appVars, tvVars>>

ScanNext ==
    \/ ScanStart
    \/ WalkStep
    \/ SubmitAll
    \/ WorkerStart
    \/ \E f \in DOMAIN futures : WorkerFinish(f)
    \/ \E f \in DOMAIN futures : AsCompletedNext(f)
    \/ HarvestResult
    \/ ExecutorExit
    \/ LinkAndReturn
    \/ SetCancel

InitScan == ScanInit /\ CacheIdle /\ GenIdle /\ RenderIdle /\ ProbeIdle /\ AppIdle /\ TvIdle

SpecScan == InitScan /\ [][ScanNext]_vars

\* The faults a scan may meet: a directory that cannot be listed together
\* with a file that cannot be stat'd, and a file whose worker raises
FaultSets ==
    { (<<nP, nRB>> :> "EACCES") @@ (<<nP, nB, nO>> :> "EACCES"),
      (<<nP, nB, nO>> :> "raise") }

\* a scan of a filesystem that holds faulty entries
ScanInitFaults ==
    /\ faults \in FaultSets
    /\ fs \in {F \in Filesystems : DOMAIN faults \subseteq F}
    /\ ignored_items \in PatternSets
    /\ cancel_event = FALSE
    /\ scanPc = "start"
    /\ walkTodo = <<>>
    /\ nodes = <<>>
    /\ nodeOrder = <<>>
    /\ file_paths_to_process = <<>>
    /\ futures = <<>>
    /\ yielded = None
    /\ scanResult = None
    /\ harvestOrder = <<>>
    /\ atCancel = None

InitScanFaults == ScanInitFaults /\ CacheIdle /\ GenIdle /\ RenderIdle /\ ProbeIdle /\ AppIdle /\ TvIdle

SpecScanFaults == InitScanFaults /\ [][ScanNext]_vars

-----------------------------------------------------------------------------
(* What a scan is expected to return, stated on the filesystem alone *)

\* p lies strictly below a (a is a proper ancestor of p)
Below(p, a) == Len(a) < Len(p) /\ SubSeq(p, 1, Len(a)) = a

\* the scanner's verdict on an entry; the scan root is never ignored
Ignored(p, pats) == p # scan_root_path /\ _is_path_ignored(relpath(p), pats)

\* the entries reachable from the root without descending into an ignored
\* directory
Reachable(F, pats) ==
    {p \in F : \A a \in F : Below(p, a) => ~Ignored(a, pats)}

\* the paths of the nodes of a tree
RECURSIVE TreePaths(_)
TreePaths(t) ==
    {t.path} \cup UNION {TreePaths(t.children[i]) : i \in 1..Len(t.children)}

\* the nodes of a tree
RECURSIVE TreeNodes(_)
TreeNodes(t) ==
    {t} \cup UNION {TreeNodes(t.children[i]) : i \in 1..Len(t.children)}

ScanReturnedTree == scanPc = "done" /\ scanResult # None

\* C1: a returned tree holds exactly the entries reachable from the root
\* without descending into an ignored directory; every ignored directory that
\* is reached is a node, marked ignored and without children, and nothing
\* below it is a node.  A scan of a directory that saw no cancel returns a tree.
C1_ScanPathsAreReachable ==
    /\ ScanReturnedTree =>
          /\ TreePaths(scanResult[1]) = Reachable(fs, ignored_items)
          /\ \A n \in TreeNodes(scanResult[1]) :
                /\ n.is_ignored = Ignored(n.path, ignored_items)
                /\ n.is_ignored => n.children = <<>>
          /\ \A d \in fs : \A p \in fs :
                (IsDir(d) /\ Ignored(d, ignored_items) /\ Below(p, d))
                    => p \notin TreePaths(scanResult[1])
    /\ (scanPc = "done" /\ ~cancel_event /\ scan_root_path \in fs)
          => scanResult # None

\* an ignored directory with an entry below it was scanned to the end
C1_Witness ==
    /\ ScanReturnedTree
    /\ \E d \in fs : \E p \in fs :
          /\ IsDir(d) /\ Ignored(d, ignored_items) /\ Below(p, d)
          /\ d \in TreePaths(scanResult[1])
          /\ Cardinality(Reachable(fs, ignored_items)) >= 3

\* every file the scan had to classify carries the details of its worker
Classified(t) ==
    \A n \in TreeNodes(t) :
        (~n.is_dir /\ ~n.is_ignored) => n.details = Some(_process_file_for_scan(n.path))

\* the scan thread takes a step from one of its two cancel check points
AtWalkCheck == scanPc = "walk" /\ walkTodo # <<>>
AtHarvestCheck == scanPc = "harvest" /\ \E f \in DOMAIN futures : futures[f].st = "done"
ScanThreadMoves == scanPc' # scanPc \/ walkTodo' # walkTodo

\* C2: a scan thread that passes a check point with the event set goes on to
\* return None and nothing else; and a tree that is returned lacks no node and
\* no classification result, whether or not the event was set meanwhile.
C2_CancelledScanReturnsNone ==
    /\ [][((AtWalkCheck \/ AtHarvestCheck) /\ cancel_event /\ ScanThreadMoves)
             => (scanPc' \in {"done", "exit_wait"} /\ scanResult' = None)]_vars
    /\ [][scanPc = "exit_wait"
             => (scanResult' = None /\ scanPc' \in {"exit_wait", "done"})]_vars
    /\ [](ScanReturnedTree =>
             /\ TreePaths(scanResult[1]) = Reachable(fs, ignored_items)
             /\ Classified(scanResult[1]))

\* the harvest loop saw the event and the scan returned None, work left undone
C2_Witness ==
    /\ scanPc = "done" /\ cancel_event /\ scanResult = None
    /\ \E f \in DOMAIN futures : futures[f].st = "cancelled"
    /\ \E f \in DOMAIN futures : futures[f].st = "harvested"

\* the event was set in the classification phase while as_completed had
\* results still to hand out
CancelInClassification ==
    /\ atCancel # None
    /\ atCancel[1].pc \in {"harvest", "result"}
    /\ atCancel[1].pending # {}

ExpPrecedes(x, y, listing) ==
    LET Pos(e) == CHOOSE i \in 1..Len(listing) : listing[i] = e
        kx == [is_dir |-> IsDir(x), name |-> PathName(x)]
        ky == [is_dir |-> IsDir(y), name |-> PathName(y)]
    IN \/ KeyLess(kx, ky)
       \/ ~KeyLess(ky, kx) /\ Pos(x) < Pos(y)

RECURSIVE ExpectedTree(_, _, _)
ExpectedTree(p, F, pats) ==
    LET ign  == Ignored(p, pats)
        kids == IF IsDir(p) /\ ~ign THEN scandir(F, p) ELSE <<>>
        Rank(e) == Cardinality({x \in Range(kids) : ExpPrecedes(x, e, kids)})
        At(i) == CHOOSE e \in Range(kids) : Rank(e) = i - 1
    IN [path |-> p, name |-> PathName(p), is_dir |-> IsDir(p), is_ignored |-> ign,
        details |-> IF ~IsDir(p) /\ ~ign THEN Some(_process_file_for_scan(p)) ELSE None,
        children |-> [i \in 1..Len(kids) |-> ExpectedTree(At(i), F, pats)]]

\* C4: the tree returned is a function of the filesystem and the patterns:
\* whatever the order in which the classifications completed and were
\* harvested, it is the expected tree.
C4_TreeIndependentOfCompletionOrder ==
    ScanReturnedTree => scanResult[1] = ExpectedTree(scan_root_path, fs, ignored_items)

\* a tree returned after the results came in against the order of submission
C4_Witness ==
    /\ ScanReturnedTree
    /\ Len(harvestOrder) >= 3
    /\ harvestOrder # file_paths_to_process


\* the files whose classification has finished, with the result of the worker
ClassifiedFiles == {f \in DOMAIN futures : futures[f].result # None}

\* C20: a file larger than MAX_FILE_SIZE_BYTES is classified with the error
\* "> 10MB" without any open() call, for the sniff or for the read; a file of
\* MAX_FILE_SIZE_BYTES or less never gets that error, and is opened.
C20_SizeCheckFirst ==
    \A f \in ClassifiedFiles :
        LET details == futures[f].result[1] IN
        IF FileAttr(f).size > MAX_FILE_SIZE_BYTES
        THEN /\ details.error = Some("> 10MB")
             /\ details.opens = <<>>
             /\ details.content = None
        ELSE /\ details.error # Some("> 10MB")
             /\ details.opens # <<>>

\* a scan has classified a file one byte above the limit and a file exactly
\* at the limit
C20_Witness ==
    /\ \E f \in ClassifiedFiles : FileAttr(f).size = MAX_FILE_SIZE_BYTES + 1
    /\ \E f \in ClassifiedFiles :
          /\ FileAttr(f).size = MAX_FILE_SIZE_BYTES
          /\ futures[f].result[1].error = None
\* C23: in every returned tree a node marked is_ignored has no children and
\* none of line_count, content, error and char_count: directories below it
\* were not walked and the file was never handed to a worker.
C23_IgnoredNodesAreBare ==
    ScanReturnedTree =>
        \A n \in TreeNodes(scanResult[1]) :
            n.is_ignored => (n.children = <<>> /\ n.details = None)

\* a returned tree holds an ignored file, an ignored directory whose entries
\* are on disk, and a classified file
C23_Witness ==
    /\ ScanReturnedTree
    /\ \E n \in TreeNodes(scanResult[1]) : n.is_ignored /\ ~n.is_dir
    /\ \E n \in TreeNodes(scanResult[1]) :
          n.is_ignored /\ n.is_dir /\ \E p \in fs : Below(p, n.path)
    /\ \E n \in TreeNodes(scanResult[1]) : n.details # None
\* C25: in every returned tree the children of every directory node come
\* with all directories before all files, and the names inside each of the
\* two groups ascend when compared in lower case.
C25_ChildrenSorted ==
    ScanReturnedTree =>
        \A n \in TreeNodes(scanResult[1]) :
            \A i \in 1..Len(n.children) : \A j \in 1..Len(n.children) :
                i < j =>
                    LET a == n.children[i]
                        b == n.children[j]
                    IN /\ ~(~a.is_dir /\ b.is_dir)
                       /\ a.is_dir = b.is_dir => ~StrLess(Lower(b.name), Lower(a.name))

\* the root of a returned tree holds two directories that were listed in
\* descending order, behind a file, and two files whose order by spelling is
\* the reverse of their order in lower case
C25_Witness ==
    /\ ScanReturnedTree
    /\ LET kids == scanResult[1].children IN
       /\ Len(kids) = 4
       /\ kids[1].name = nB /\ kids[2].name = nRB
       /\ kids[3].name = nAL /\ kids[4].name = nS
       /\ StrLess(nS, nAL)
-----------------------------------------------------------------------------
(* scan_directory_fast with faulty entries: claims *)
\* how often a node of path p occurs in the tree t
RECURSIVE Occurrences(_, _)
Occurrences(t, p) ==
    LET RECURSIVE Sum(_)
        Sum(i) == IF i = 0 THEN 0 ELSE Occurrences(t.children[i], p) + Sum(i - 1)
    IN (IF t.path = p THEN 1 ELSE 0) + Sum(Len(t.children))

\* C33: a returned tree is a strict tree rooted at the scan root: the path of
\* the root node is the scan path, the root is not marked ignored even when a
\* pattern matches its name, and every other node of the flat map occurs
\* exactly once in the tree, among the children of the node of its parent
\* directory.
C33_StrictTree ==
    ScanReturnedTree =>
        LET t == scanResult[1] IN
        /\ t.path = scan_root_path
        /\ ~t.is_ignored
        /\ Occurrences(t, scan_root_path) = 1
        /\ \A k \in DOMAIN nodes :
              k # NormKey(scan_root_path) =>
                  /\ Occurrences(t, nodes[k].path) = 1
                  /\ \E n \in TreeNodes(t) :
                        /\ n.path = dirname(nodes[k].path)
                        /\ \E i \in 1..Len(n.children) : n.children[i].path = nodes[k].path

\* a tree three levels deep was returned by a scan run with a pattern that
\* matches the name of the scan root
C33_Witness ==
    /\ ScanReturnedTree
    /\ \E pattern \in ignored_items : fnmatch(PathName(scan_root_path), pattern)
    /\ <<nP, nB, nS, nX>> \in TreePaths(scanResult[1])
    /\ Cardinality(DOMAIN nodes) = Cardinality(Universe)

\* C26: a classification failure of one file (too large, binary, OSError or
\* any exception raised in the worker) never aborts the scan and never
\* changes the result of another file: a scan that saw no cancel returns a
\* tree, every file without a fault carries the details of its own worker,
\* and the failure is the error field of the node of the failing file.
C26_AsClaimed ==
    /\ (scanPc = "done" /\ ~cancel_event /\ scan_root_path \in fs) => scanResult # None
    /\ ScanReturnedTree =>
          \A n \in TreeNodes(scanResult[1]) :
              (~n.is_dir /\ ~n.is_ignored) =>
                  IF Fault(n.path) = "none"
                  THEN n.details = Some(ClassifyAttr(FileAttr(n.path)))
                  ELSE n.details # None /\ n.details[1].error # None

\* C29: a directory that cannot be listed and a file that cannot be stat'd
\* are left out of the returned tree: no node carries their path.
C29_AsClaimed ==
    ScanReturnedTree =>
        \A p \in DOMAIN faults :
            faults[p] = "EACCES" => p \notin TreePaths(scanResult[1])

-----------------------------------------------------------------------------
(* FileDetailCache: claims *)

LastKey == NormKey(lastCall.path)

\* the last call was get(p), and before it the cache held an entry for p
GetOnEntry == lastCall.op = "get" /\ LastKey \in DOMAIN lastCall.pre

\* the file's mtime could be read and equals the one stored with the entry
MtimeMatches ==
    lastCall.stat.st = "file" /\ lastCall.stat.mtime = lastCall.pre[LastKey].mtime

\* C5 as claimed: get(p) returns the stored entry if an entry exists under the
\* normalized path and the file's mtime equals the stored one, and returns
\* None - raising nothing - in every other case.
C5_AsClaimed ==
    lastCall.op = "get" =>
        /\ lastCall.raised = "no"
        /\ IF LastKey \in DOMAIN lastCall.pre /\ MtimeMatches
           THEN lastCall.ret = Some(lastCall.pre[LastKey])
           ELSE lastCall.ret = None

\* C6: get(p) on an entry whose file has been deleted returns None, raises
\* nothing, and removes the entry of p and no other.
C6_GetEvictsDeleted ==
    (GetOnEntry /\ lastCall.stat.st = "missing") =>
        /\ lastCall.ret = None
        /\ lastCall.raised = "no"
        /\ LastKey \notin DOMAIN _cache
        /\ _cache = Without(lastCall.pre, LastKey)

\* get(p) has just evicted the entry of a deleted file and left another one
C6_Witness ==
    /\ GetOnEntry /\ lastCall.stat.st = "missing"
    /\ LastKey \notin DOMAIN _cache
    /\ _cache # <<>>

C8_AsClaimed ==
    (lastCall.op = "set" /\ lastCall.stat.st # "file") =>
        /\ lastCall.raised = "no"
        /\ _cache = lastCall.pre

\* the call made in this step was of the key k
CallOn(k) == lastCall'.op \in {"get", "set"} /\ NormKey(lastCall'.path) = k

\* C34: over every sequence of get, set and clear, the entry of a key k
\* leaves the cache only by clear() or by a get(k) that finds the file
\* missing, and enters it only by a set(k) that raises nothing; a get or set
\* of another key leaves it as it is; clear() empties the cache, and a get
\* returns an entry only where one is stored.
C34_EntriesLeaveByClearOrMissingGet ==
    /\ [][\A k \in CacheKeys :
            /\ (k \in DOMAIN _cache /\ k \notin DOMAIN _cache') =>
                  \/ lastCall'.op = "clear"
                  \/ /\ lastCall'.op = "get" /\ CallOn(k)
                     /\ lastCall'.stat.st = "missing"
            /\ (k \notin DOMAIN _cache /\ k \in DOMAIN _cache') =>
                  /\ lastCall'.op = "set" /\ CallOn(k)
                  /\ lastCall'.raised = "no"
            /\ (k \in DOMAIN _cache /\ k \in DOMAIN _cache' /\ _cache'[k] # _cache[k]) =>
                  lastCall'.op = "set" /\ CallOn(k)]_vars
    /\ [](lastCall.op = "clear" => _cache = <<>>)
    /\ [](lastCall.op = "get" /\ lastCall.ret # None => LastKey \in DOMAIN lastCall.pre)

\* a get of a key without entry, whose file is missing, has left the entry of
\* another key stored
C34_Witness ==
    /\ lastCall.op = "get" /\ lastCall.stat.st = "missing"
    /\ LastKey \notin DOMAIN lastCall.pre
    /\ _cache # <<>> /\ _cache = lastCall.pre

-----------------------------------------------------------------------------
(* generator.py: build_annotated_tree *)

\* tree_dict is a dict of dicts with string markers.  The model keeps it flat:
\* a function from the parts of a path (relative to base_dir, so starting with
\* the root folder's name) to "DICT", "IGNORED" or "UNCHECKED_DIR"; the keys
\* of the dict at path cp are the last parts of the entries just below cp.
IsMarker(v) == v \in {"IGNORED", "UNCHECKED_DIR"}

\* current_level[part] = value: a marker replaces whatever dict was there
SetEntry(td, cur, v) ==
    LET kept == {k \in DOMAIN td : ~(Len(k) > Len(cur) /\ SubSeq(k, 1, Len(cur)) = cur)}
    IN [k \in kept \cup {cur} |-> IF k = cur THEN v ELSE td[k]]

\* item_states.get(key)
StateOf(states, k) == IF k \in DOMAIN states THEN states[k] ELSE "none"

\* lines 22-40: the loop over the parts of one path, from part i on
RECURSIVE InsertParts(_, _, _, _)
InsertParts(td, parts, i, A) ==
    IF i > Len(parts) THEN td
    ELSE LET cur  == SubSeq(parts, 1, i)
             part == parts[i]
         IN IF cur \in DOMAIN td /\ IsMarker(td[cur]) THEN td
            ELSE IF part \in A.ignored_items THEN SetEntry(td, cur, "IGNORED")
            ELSE IF ~A.is_annotated_mode
                    /\ StateOf(A.item_states, NormKey(cur)) = "unchecked"
                 THEN SetEntry(td, cur, "UNCHECKED_DIR")
            ELSE InsertParts(IF cur \in DOMAIN td THEN td ELSE SetEntry(td, cur, "DICT"),
                             parts, i + 1, A)

\* lines 12-43: one path of files_for_tree goes into tree_dict
InsertPath(td, path, A) == InsertParts(td, normpath(path, <<>>), 1, A)

\* lines 12-43: the whole loop
RECURSIVE BuildTreeDict(_, _, _)
BuildTreeDict(td, paths, A) ==
    IF paths = <<>> THEN td
    ELSE BuildTreeDict(InsertPath(td, Head(paths), A), Tail(paths), A)

\* sorted(names): ascending by code point
RECURSIVE SortedNames(_)
SortedNames(S) ==
    IF S = {} THEN <<>>
    ELSE LET m == CHOOSE x \in S : \A y \in S : y = x \/ StrLess(x, y)
         IN <<m>> \o SortedNames(S \ {m})

\* line 10: content_set
content_set(A) == {NormKey(A.files_for_content[i]) : i \in 1..Len(A.files_for_content)}

\* file_details_map.get(key): None when absent
DetailsOf(A, k) ==
    IF k \in DOMAIN A.file_details_map THEN Some(A.file_details_map[k]) ELSE None

\* "line_count" in details and details["line_count"] is not None
HasLineCount(det) == det # None /\ det[1].d.line_count # None

\* details and details.get("error")
HasError(det) == det # None /\ det[1].d.error # None

\* one annotation inside the brackets of a line
Ann(t, n, str) == [t |-> t, n |-> n, s |-> str]

\* one line of the tree: prefix, connector, what it names, and its annotations;
\* path (not part of the text) is the path the line stands for
Line(prefix, last, kind, path, name, n, ann) ==
    [prefix |-> prefix, last |-> last, kind |-> kind, path |-> path, name |-> name,
     n |-> n, ann |-> ann]

\* the keys of the dict at current_path with a value of one sort
KeysOf(td, current_path, vals) ==
    {k[Len(k)] : k \in {x \in DOMAIN td : Len(x) = Len(current_path) + 1
                                          /\ dirname(x) = current_path
                                          /\ td[x] \in vals}}

\* tag the names of a list with the list they came from
Tagged(names, cat) == [i \in 1..Len(names) |-> [name |-> names[i], cat |-> cat, n |-> 0]]

\* lines 45-118: generate_lines(d, prefix, current_path) and its loop over
\* all_renderable_items from item i on.  A value of tree_dict is a dict or one
\* of the two markers, so all_files (line 50) selects among the values that
\* are neither.
RECURSIVE generate_lines(_, _, _, _)
RECURSIVE RenderItems(_, _, _, _, _, _)
RenderItems(td, A, prefix, current_path, items, i) ==
    IF i > Len(items) THEN <<>>
    ELSE
    LET it        == items[i]
        last      == (i = Len(items))
        extension == IF last THEN "blank" ELSE "bar"
        key       == NormKey(current_path \o <<it.name>>)
        details   == DetailsOf(A, key)
        included  == key \in content_set(A)
        rest      == RenderItems(td, A, prefix, current_path, items, i + 1)
    IN
    IF it.cat = "summary"
    THEN <<Line(prefix, last, "summary", current_path, <<>>, it.n, <<>>)>> \o rest
    ELSE IF it.cat = "ignored"
    THEN <<Line(prefix, last, "entry", key, it.name, 0, <<Ann("ignored", 0, "")>>)>> \o rest
    ELSE IF it.cat = "unchecked"
    THEN <<Line(prefix, last, "entry", key, it.name, 0, <<Ann("content omitted", 0, "")>>)>> \o rest
    ELSE IF it.cat = "dir"
    THEN <<Line(prefix, last, "entry", key, it.name, 0,
                IF HasLineCount(details)
                THEN <<Ann("lines", details[1].d.line_count[1], "")>> ELSE <<>>)>>
         \o generate_lines(td, A, Append(prefix, extension), current_path \o <<it.name>>)
         \o rest
    ELSE <<Line(prefix, last, "entry", key, it.name, 0,
                (IF HasError(details)
                 THEN <<Ann("error", 0, details[1].d.error[1])>>
                 ELSE IF HasLineCount(details) /\ (included \/ A.is_annotated_mode)
                 THEN <<Ann("lines", details[1].d.line_count[1], "")>>
                 ELSE <<>>)
                \o (IF A.is_annotated_mode /\ ~included /\ ~HasError(details)
                    THEN <<Ann("content omitted", 0, "")>> ELSE <<>>))>>
         \o rest

generate_lines(td, A, prefix, current_path) ==
    LET dirs           == SortedNames(KeysOf(td, current_path, {"DICT"}))
        all_files      == SortedNames(KeysOf(td, current_path,
                              {v \in {td[k] : k \in DOMAIN td} :
                                  v # "DICT" /\ ~IsMarker(v)}))
        ignored_nodes  == SortedNames(KeysOf(td, current_path, {"IGNORED"}))
        unchecked_dirs == SortedNames(KeysOf(td, current_path, {"UNCHECKED_DIR"}))
        included_files == Keep(all_files,
                               {nm \in Range(all_files) :
                                   NormKey(current_path \o <<nm>>) \in content_set(A)})
        files_to_render    == IF A.is_annotated_mode THEN all_files ELSE included_files
        omitted_file_count == IF A.is_annotated_mode THEN 0
                              ELSE Len(all_files) - Len(files_to_render)
        items == Tagged(dirs, "dir") \o Tagged(unchecked_dirs, "unchecked")
                 \o Tagged(files_to_render, "file") \o Tagged(ignored_nodes, "ignored")
                 \o (IF omitted_file_count > 0
                     THEN <<[name |-> <<>>, cat |-> "summary", n |-> omitted_file_count]>>
                     ELSE <<>>)
    IN RenderItems(td, A, prefix, current_path, items, 1)

\* lines 120-123: the root folder's line and the lines below it
RenderTree(td, A) ==
    <<Line(<<>>, TRUE, "root", <<nP>>, nP, 0, <<>>)>>
    \o (IF <<nP>> \in DOMAIN td /\ td[<<nP>>] = "DICT"
        THEN generate_lines(td, A, <<>>, <<nP>>) ELSE <<>>)

\* build_annotated_tree
build_annotated_tree(A) == RenderTree(BuildTreeDict(<<>>, A.files_for_tree, A), A)

-----------------------------------------------------------------------------
(* generator.py: generate_text_content_fast and _read_file_content_worker *)

pA    == <<nP, nAL>>
pAdot == <<nP, <<".">>, nAL>>
pBO   == <<nP, nB, nO>>

\* files_for_tree: the paths of the scanned tree
files_for_tree == << <<nP>>, <<nP, nB>>, pA, pBO >>

\* the selection lists a generation is started with: single, distinct,
\* a repeated path, and two spellings of one file
Selections ==
    { <<pA>>, <<pBO, pA>>, <<pA, pA>>, <<pA, pAdot>>, <<pBO, pAdot, pA>> }

\* a tree scanned before P/b appeared, and selections that are stale for it
StaleTree == << <<nP>>, pA >>
StaleSelections == { <<pBO>>, <<pBO, pA>> }

\* the (files_for_tree, files_for_content) arguments of a generation
GenInputs ==
    {[tree |-> files_for_tree, sel |-> sel] : sel \in Selections}
    \cup {[tree |-> StaleTree, sel |-> sel] : sel \in StaleSelections}

\* what the cache may hold when a generation starts
GenCaches ==
    { <<>>,
      (pBO :> [data |-> [content |-> Some(<<"x">>), line_count |-> Some(1),
                         error |-> None],
               mtime |-> 1]),
      (pBO :> [data |-> [content |-> Some(<<"x">>), line_count |-> Some(1),
                         error |-> None],
               mtime |-> 1])
      @@ (pA :> [data |-> [content |-> None, line_count |-> None,
                           error |-> Some("> 10MB")],
                 mtime |-> 1]) }

\* os.path.isfile: False also when the stat fails
isfile(dsk, file_path) ==
    NormKey(file_path) \in DOMAIN dsk /\ dsk[NormKey(file_path)].st = "file"

\* (mutant) the line count is the number of line terminators
ReadAttr_CountsTerminators(attr) ==
    IF attr.read_ok
    THEN [content |-> Some(attr.text), line_count |-> Some(CountLF(attr.text)),
          error |-> None]
    ELSE [content |-> None, line_count |-> None, error |-> Some(attr.errno)]

\* (mutant) the record of a failed read keeps the text
ReadAttr_KeepsContent(attr) ==
    [content |-> Some(attr.text), line_count |-> None,
     error |-> IF attr.read_ok THEN None ELSE Some(attr.errno)]

\* lines 127-136 of _read_file_content_worker on a file with attributes attr:
\* open() and read(), or the OSError of the open
ReadAttr(attr) ==
    IF attr.read_ok
    THEN [content |-> Some(attr.text), line_count |-> Some(CountLF(attr.text) + 1),
          error |-> None]
    ELSE [content |-> None, line_count |-> None, error |-> Some(attr.errno)]

\* lines 127-136 of _read_file_content_worker: the details of one read
ReadDetails(dsk, file_path) ==
    ReadAttr([read_ok |-> isfile(dsk, file_path),
              text    |-> IF isfile(dsk, file_path)
                          THEN FileAttr(NormKey(file_path)).text ELSE <<>>,
              errno   |-> IF NormKey(file_path) \in DOMAIN dsk
                             /\ dsk[NormKey(file_path)].st = "denied"
                          THEN "EACCES" ELSE "ENOENT"])

\* lines 157-160: file_details_map from the cache, for the files of the tree;
\* cache.get may evict and may raise.  os.path.isfile (line 158) looks at the
\* disk as it is then (dsk), os.path.getmtime of cache.get (line 160) at the
\* disk as it is a moment later (late)
RECURSIVE PopulateMap(_, _, _, _, _)
PopulateMap(paths, cache, dsk, late, map) ==
    IF paths = <<>> THEN [cache |-> cache, map |-> map, raised |-> "no"]
    ELSE LET file_path == Head(paths) IN
         IF ~isfile(dsk, file_path)
         THEN PopulateMap(Tail(paths), cache, dsk, late, map)
         ELSE LET out == cache_get(cache, late, file_path) IN
              IF out.raised # "no"
              THEN [cache |-> out.cache, map |-> map, raised |-> out.raised]
              ELSE PopulateMap(Tail(paths), out.cache, dsk, late,
                     (NormKey(file_path) :>
                         IF out.ret # None
                         THEN [kind |-> "details", d |-> out.ret[1].data]
                         ELSE [kind |-> "path",
                               d |-> [content |-> None, line_count |-> None,
                                      error |-> None]])
                     @@ map)

\* "content" in file_details_map.get(key, {})
HasContentKey(map, k) == k \in DOMAIN map /\ map[k].kind = "details"

\* (mutant) every selected path is submitted a second time
FilesToRead_Twice(sel, map) ==
    LET all == sel \o sel IN
    Keep(all, {fp \in Range(all) : ~HasContentKey(map, NormKey(fp))})

\* lines 163-166: files_to_read, in the order of the selection
RECURSIVE FilesToRead(_, _)
FilesToRead(sel, map) ==
    IF sel = <<>> THEN <<>>
    ELSE IF HasContentKey(map, NormKey(Head(sel)))
         THEN FilesToRead(Tail(sel), map)
         ELSE <<Head(sel)>> \o FilesToRead(Tail(sel), map)

\* sorted(files_for_content): by the path strings
RECURSIVE SortedPaths(_)
SortedPaths(ps) ==
    IF ps = <<>> THEN <<>>
    ELSE LET front == SortedPaths(SubSeq(ps, 1, Len(ps) - 1))
             x     == ps[Len(ps)]
             n     == Cardinality({i \in 1..Len(front) :
                                     ~StrLess(JoinSlash(x), JoinSlash(front[i]))})
         IN SubSeq(front, 1, n) \o <<x>> \o SubSeq(front, n + 1, Len(front))

GenRunning == {i \in DOMAIN genFutures : genFutures[i].st \in {"reading", "setting"}}
GenQueued  == {i \in DOMAIN genFutures : genFutures[i].st = "queued"}

GenInit ==
    /\ disk \in [CacheKeys -> StatStates]
    /\ _cache \in GenCaches
    /\ lastCall = [op |-> "none"]
    /\ \E inp \in GenInputs :
          /\ gen_files_for_tree = inp.tree
          /\ files_for_content = inp.sel
    /\ file_details_map = <<>>
    /\ files_to_read = <<>>
    /\ genFutures = <<>>
    /\ genYielded = None
    /\ genPc = "start"
    /\ gen_cancel = FALSE
    /\ final_content = <<>>
    /\ formatIdx = 0
    /\ delivered = <<>>
    /\ final_calls = 0
    /\ genExit = "none"
    /\ is_annotated_mode \in BOOLEAN
    /\ item_states = <<>>

GenTask(st, fp, res, raised) == [st |-> st, path |-> fp, result |-> res, raised |-> raised]

\* the disk a moment after os.path.isfile has looked at it: unchanged, or one
\* file has lost the search permission of its directory in between
LateDisks(dsk) ==
    {dsk} \cup { [dsk EXCEPT ![k] = [st |-> "denied", mtime |-> 0]] :
                    k \in {x \in DOMAIN dsk : dsk[x].st = "file"} }

\* lines 155-174: the details map, files_to_read, and the submission
GenPopulate ==
    /\ genPc = "start"
    /\ \E late \in LateDisks(disk) :
        LET out == PopulateMap(gen_files_for_tree, _cache, disk, late, <<>>)
            ftr == FilesToRead(files_for_content, out.map)
        IN /\ disk' = late
           /\ _cache' = out.cache
           /\ file_details_map' = out.map
           /\ IF out.raised # "no"
              THEN /\ genPc' = "finally"
                   /\ genExit' = "exception"
                   /\ UNCHANGED <<files_to_read, genFutures>>
              ELSE /\ files_to_read' = ftr
                   /\ genFutures' = [i \in 1..Len(ftr) |-> GenTask("queued", ftr[i], None, "no")]
                   /\ genPc' = IF ftr = <<>> THEN "check_tree" ELSE "harvest"
                   /\ UNCHANGED genExit
    /\ UNCHANGED <<lastCall, files_for_content, genYielded, gen_cancel,
                   final_content, formatIdx, delivered, final_calls>>
    /\ UNCHANGED <<scanVars, renderVars, probeVars, appVars, tvVars, is_annotated_mode,
                   item_states,
                   gen_files_for_tree>>

\* a pool thread takes the next queued task (first in, first out)
GenWorkerStart ==
    /\ GenQueued # {}
    /\ Cardinality(GenRunning) < PoolSize
    /\ LET i == CHOOSE x \in GenQueued : \A y \in GenQueued : x <= y IN
       genFutures' = [genFutures EXCEPT ![i].st = "reading"]
    /\ UNCHANGED <<cacheVars, files_for_content, file_details_map, files_to_read,
                   genYielded, genPc, gen_cancel, final_content, formatIdx,
                   delivered, final_calls, genExit>>
    /\ UNCHANGED <<scanVars, renderVars, probeVars, appVars, tvVars, is_annotated_mode,
                   item_states,
                   gen_files_for_tree>>

\* lines 127-139: the file is read and cache.set is entered
GenWorkerRead(i) ==
    /\ i \in DOMAIN genFutures /\ genFutures[i].st = "reading"
    /\ genFutures' = [genFutures EXCEPT
                         ![i].st = "setting",
                         ![i].result = Some(ReadDetails(disk, genFutures[i].path))]
    /\ UNCHANGED <<cacheVars, files_for_content, file_details_map, files_to_read,
                   genYielded, genPc, gen_cancel, final_content, formatIdx,
                   delivered, final_calls, genExit>>
    /\ UNCHANGED <<scanVars, renderVars, probeVars, appVars, tvVars, is_annotated_mode,
                   item_states,
                   gen_files_for_tree>>

\* lines 139-140: cache.set stores (or raises), and the worker returns
GenWorkerStore(i) ==
    /\ i \in DOMAIN genFutures /\ genFutures[i].st = "setting"
    /\ LET out == cache_set(_cache, disk, genFutures[i].path, genFutures[i].result[1])
       IN /\ _cache' = out.cache
          /\ genFutures' = [genFutures EXCEPT
                               ![i].st = "done",
                               ![i].raised = out.raised,
                               ![i].result = IF out.raised = "no" THEN @ ELSE None]
    /\ UNCHANGED <<disk, lastCall, files_for_content, file_details_map, files_to_read,
                   genYielded, genPc, gen_cancel, final_content, formatIdx,
                   delivered, final_calls, genExit>>
    /\ UNCHANGED <<scanVars, renderVars, probeVars, appVars, tvVars, is_annotated_mode,
                   item_states,
                   gen_files_for_tree>>

\* executor.shutdown(wait=False, cancel_futures=True) of the generation
GenCancelFutures(futs) ==
    [i \in DOMAIN futs |->
        IF futs[i].st = "queued" THEN [futs[i] EXCEPT !.st = "cancelled"] ELSE futs[i]]

\* lines 175-180: as_completed hands out a finished future; the cancel check
GenAsCompletedNext(i) ==
    /\ genPc = "harvest"
    /\ i \in DOMAIN genFutures /\ genFutures[i].st = "done"
    /\ IF gen_cancel
       THEN /\ genFutures' = GenCancelFutures(genFutures)
            /\ genPc' = "exit_wait"
            /\ genExit' = "cancelled"
            /\ genYielded' = None
       ELSE /\ genFutures' = [genFutures EXCEPT ![i].st = "yielded"]
            /\ genPc' = "result"
            /\ genYielded' = Some(i)
            /\ UNCHANGED genExit
    /\ UNCHANGED <<cacheVars, files_for_content, file_details_map, files_to_read,
                   gen_cancel, final_content, formatIdx, delivered, final_calls>>
    /\ UNCHANGED <<scanVars, renderVars, probeVars, appVars, tvVars, is_annotated_mode,
                   item_states,
                   gen_files_for_tree>>

\* lines 182-190: the details of the future handed out go into the map
GenHarvestResult ==
    /\ genPc = "result"
    /\ LET i == genYielded[1]
           t == genFutures[i]
       IN /\ file_details_map' =
                 IF t.raised = "no"
                 THEN (NormKey(t.path) :> [kind |-> "details", d |-> t.result[1]])
                      @@ file_details_map
                 ELSE file_details_map
          /\ genFutures' = [genFutures EXCEPT ![i].st = "harvested"]
    /\ genYielded' = None
    /\ genPc' = "harvest"
    /\ UNCHANGED <<cacheVars, files_for_content, files_to_read, gen_cancel,
                   final_content, formatIdx, delivered, final_calls, genExit>>
    /\ UNCHANGED <<scanVars, renderVars, probeVars, appVars, tvVars, is_annotated_mode,
                   item_states,
                   gen_files_for_tree>>

\* the loop over as_completed ends and the with block is left
GenLoopEnd ==
    /\ genPc = "harvest"
    /\ \A i \in DOMAIN genFutures : genFutures[i].st = "harvested"
    /\ genPc' = "check_tree"
    /\ UNCHANGED <<cacheVars, files_for_content, file_details_map, files_to_read,
                   genFutures, genYielded, gen_cancel, final_content, formatIdx,
                   delivered, final_calls, genExit>>
    /\ UNCHANGED <<scanVars, renderVars, probeVars, appVars, tvVars, is_annotated_mode,
                   item_states,
                   gen_files_for_tree>>

\* leaving the with block on the cancelled return waits for the running tasks
GenExecutorExit ==
    /\ genPc = "exit_wait"
    /\ GenRunning = {}
    /\ genPc' = "finally"
    /\ UNCHANGED <<cacheVars, files_for_content, file_details_map, files_to_read,
                   genFutures, genYielded, gen_cancel, final_content, formatIdx,
                   delivered, final_calls, genExit>>
    /\ UNCHANGED <<scanVars, renderVars, probeVars, appVars, tvVars, is_annotated_mode,
                   item_states,
                   gen_files_for_tree>>

\* line 196: the arguments handed to build_annotated_tree
GenRenderArgs ==
    [files_for_tree |-> gen_files_for_tree, files_for_content |-> files_for_content,
     is_annotated_mode |-> is_annotated_mode, ignored_items |-> ignored_items,
     item_states |-> item_states, file_details_map |-> file_details_map]

\* lines 192-200: the check before the tree is built; the header and the tree
GenCheckTree ==
    /\ genPc = "check_tree"
    /\ IF gen_cancel
       THEN /\ genPc' = "finally"
            /\ genExit' = "cancelled"
            /\ UNCHANGED final_content
       ELSE /\ genPc' = "check_format"
            /\ final_content' = <<[kind |-> "structure",
                                    lines |-> build_annotated_tree(GenRenderArgs)]>>
            /\ UNCHANGED genExit
    /\ UNCHANGED <<cacheVars, files_for_content, file_details_map, files_to_read,
                   genFutures, genYielded, gen_cancel, formatIdx, delivered,
                   final_calls>>
    /\ UNCHANGED <<scanVars, renderVars, probeVars, appVars, tvVars, is_annotated_mode,
                   item_states,
                   gen_files_for_tree>>

\* line 202: the check before formatting
GenCheckFormat ==
    /\ genPc = "check_format"
    /\ IF gen_cancel
       THEN /\ genPc' = "finally"
            /\ genExit' = "cancelled"
            /\ UNCHANGED formatIdx
       ELSE /\ genPc' = "format"
            /\ formatIdx' = 1
            /\ UNCHANGED genExit
    /\ UNCHANGED <<cacheVars, files_for_content, file_details_map, files_to_read,
                   genFutures, genYielded, gen_cancel, final_content, delivered,
                   final_calls>>
    /\ UNCHANGED <<scanVars, renderVars, probeVars, appVars, tvVars, is_annotated_mode,
                   item_states,
                   gen_files_for_tree>>

\* (mutant) a block for every path with details, its error notwithstanding
FormatBlock_ErrorsToo(map, file_path) ==
    LET k == NormKey(file_path) IN
    IF k \in DOMAIN map /\ map[k].kind = "details"
    THEN <<[kind |-> "file", path |-> k,
            content |-> IF map[k].d.content # None THEN map[k].d.content[1] ELSE <<>>]>>
    ELSE <<>>

\* lines 209-216: the block of one selected path, if it has one
FormatBlock(map, file_path) ==
    LET k == NormKey(file_path) IN
    IF k \in DOMAIN map /\ map[k].d.error = None /\ map[k].d.content # None
       /\ map[k].kind = "details"
    THEN <<[kind |-> "file", path |-> k, content |-> map[k].d.content[1]]>>
    ELSE <<>>

\* lines 206-216: one iteration of the formatting loop, or its end
GenFormatStep ==
    /\ genPc = "format"
    /\ LET srt == SortedPaths(files_for_content) IN
       IF formatIdx > Len(srt)
       THEN /\ genPc' = "check_final"
            /\ UNCHANGED <<final_content, formatIdx, genExit>>
       ELSE IF gen_cancel
       THEN /\ genPc' = "finally"
            /\ genExit' = "cancelled"
            /\ UNCHANGED <<final_content, formatIdx>>
       ELSE /\ final_content' = final_content \o FormatBlock(file_details_map, srt[formatIdx])
            /\ formatIdx' = formatIdx + 1
            /\ UNCHANGED <<genPc, genExit>>
    /\ UNCHANGED <<cacheVars, files_for_content, file_details_map, files_to_read,
                   genFutures, genYielded, gen_cancel, delivered, final_calls>>
    /\ UNCHANGED <<scanVars, renderVars, probeVars, appVars, tvVars, is_annotated_mode,
                   item_states,
                   gen_files_for_tree>>

\* (mutant) the document is handed over without the last look at the event
GenFinalCheck_NoCheck ==
    /\ genPc = "check_final"
    /\ delivered' = Append(delivered, final_content)
    /\ genExit' = "delivered"
    /\ genPc' = "finally"
    /\ UNCHANGED <<cacheVars, files_for_content, file_details_map, files_to_read,
                   genFutures, genYielded, gen_cancel, final_content, formatIdx,
                   final_calls>>
    /\ UNCHANGED <<scanVars, renderVars, probeVars, appVars, tvVars, is_annotated_mode,
                   item_states,
                   gen_files_for_tree>>

\* lines 218-219: success_callback, unless the event is set
GenFinalCheck ==
    /\ genPc = "check_final"
    /\ IF gen_cancel
       THEN /\ genExit' = "cancelled"
            /\ UNCHANGED delivered
       ELSE /\ delivered' = Append(delivered, final_content)
            /\ genExit' = "delivered"
    /\ genPc' = "finally"
    /\ UNCHANGED <<cacheVars, files_for_content, file_details_map, files_to_read,
                   genFutures, genYielded, gen_cancel, final_content, formatIdx,
                   final_calls>>
    /\ UNCHANGED <<scanVars, renderVars, probeVars, appVars, tvVars, is_annotated_mode,
                   item_states,
                   gen_files_for_tree>>

\* (mutant) final_callback at the end of the try block instead of in finally
GenFinally_OnlyOnReturn ==
    /\ genPc = "finally"
    /\ final_calls' = IF genExit = "exception" THEN final_calls ELSE final_calls + 1
    /\ genPc' = "done"
    /\ UNCHANGED <<cacheVars, files_for_content, file_details_map, files_to_read,
                   genFutures, genYielded, gen_cancel, final_content, formatIdx,
                   delivered, genExit>>
    /\ UNCHANGED <<scanVars, renderVars, probeVars, appVars, tvVars, is_annotated_mode,
                   item_states,
                   gen_files_for_tree>>

\* lines 224-226: final_callback
GenFinally ==
    /\ genPc = "finally"
    /\ final_calls' = final_calls + 1
    /\ genPc' = "done"
    /\ UNCHANGED <<cacheVars, files_for_content, file_details_map, files_to_read,
                   genFutures, genYielded, gen_cancel, final_content, formatIdx,
                   delivered, genExit>>
    /\ UNCHANGED <<scanVars, renderVars, probeVars, appVars, tvVars, is_annotated_mode,
                   item_states,
                   gen_files_for_tree>>

\* another thread calls cancel_event.set() while the generation runs
SetGenCancel ==
    /\ ~gen_cancel
    /\ genPc # "done"
    /\ gen_cancel' = TRUE
    /\ UNCHANGED <<cacheVars, files_for_content, file_details_map, files_to_read,
                   genFutures, genYielded, genPc, final_content, formatIdx,
                   delivered, final_calls, genExit>>
    /\ UNCHANGED <<scanVars, renderVars, probeVars, appVars, tvVars, is_annotated_mode,
                   item_states,
                   gen_files_for_tree>>

GenNext ==
    \/ GenPopulate
    \/ GenWorkerStart
    \/ \E i \in DOMAIN genFutures : GenWorkerRead(i)
    \/ \E i \in DOMAIN genFutures : GenWorkerStore(i)
    \/ \E i \in DOMAIN genFutures : GenAsCompletedNext(i)
    \/ GenHarvestResult
    \/ GenLoopEnd
    \/ GenExecutorExit
    \/ GenCheckTree
    \/ GenCheckFormat
    \/ GenFormatStep
    \/ GenFinalCheck
    \/ GenFinally
    \/ SetGenCancel

InitGen == GenInit /\ ScanIdle /\ RenderIdle /\ ProbeIdle /\ AppIdle /\ TvIdle

SpecGen == InitGen /\ [][GenNext]_vars

\* the generation thread and the pool threads are scheduled: a step that can
\* be taken is taken in the end.  Before its finally block the call can always
\* take a step (the generation thread or a pool thread), so weak fairness of
\* those steps is written out with the condition under which they are
\* enabled; SetGenCancel fires at most once and is under no obligation
GenProgress == <>[](genPc \notin {"finally", "done"}) => []<><<GenNext>>_vars

SpecGenLive == InitGen /\ [][GenNext]_vars /\ GenProgress /\ WF_vars(GenFinally)

-----------------------------------------------------------------------------
(* generate_text_content_fast: claims *)

\* two tasks of the pool are inside cache.set for the same key
SameKeyInSet ==
    \E i, j \in DOMAIN genFutures :
        /\ i # j
        /\ genFutures[i].st = "setting" /\ genFutures[j].st = "setting"
        /\ NormKey(genFutures[i].path) = NormKey(genFutures[j].path)

\* C9 as claimed: whatever the selection list, no two running read workers
\* are in cache.set on the same normalized key.
C9_AsClaimed == ~SameKeyInSet

\* the paths of a list normalize to pairwise distinct keys
DistinctKeys(ps) ==
    \A i, j \in 1..Len(ps) : NormKey(ps[i]) = NormKey(ps[j]) => i = j

\* C9 amended: for a selection list whose paths normalize to pairwise distinct
\* keys, no two read workers that run at the same time have the same key, so
\* no two of them call cache.set on one key.
C9_DistinctSelectionNoContention ==
    DistinctKeys(files_for_content) =>
        \A i, j \in GenRunning :
            NormKey(genFutures[i].path) = NormKey(genFutures[j].path) => i = j

\* two workers of a distinct selection are inside cache.set at once
C9_Witness ==
    /\ DistinctKeys(files_for_content)
    /\ \E i, j \in DOMAIN genFutures :
          i # j /\ genFutures[i].st = "setting" /\ genFutures[j].st = "setting"

\* the generation thread takes a step from one of its cancel check points
GenAtCheck ==
    \/ genPc = "harvest" /\ \E i \in DOMAIN genFutures : genFutures[i].st = "done"
    \/ genPc \in {"check_tree", "check_format", "check_final"}
    \/ genPc = "format" /\ formatIdx <= Len(files_for_content)
GenThreadMoves == genPc' # genPc \/ formatIdx' # formatIdx

\* C10: a step of the generation from a check point with the event set
\* delivers nothing and ends the generation as cancelled; a cancelled
\* generation has delivered no document and never delivers one.
C10_CancelledDeliversNothing ==
    /\ [][(GenAtCheck /\ gen_cancel /\ GenThreadMoves)
             => (genExit' = "cancelled" /\ delivered' = <<>>)]_vars
    /\ [][genExit = "cancelled" => (genExit' = "cancelled" /\ delivered' = <<>>)]_vars
    /\ [](genExit = "cancelled" => delivered = <<>>)

\* a generation cancelled while formatting: blocks were built, none delivered
C10_Witness ==
    /\ genPc = "done" /\ genExit = "cancelled"
    /\ Len(final_content) >= 2
    /\ delivered = <<>>
    /\ final_calls = 1

\* the blocks of the File Contents section of the delivered document
DeliveredBlocks ==
    {delivered[1][i] : i \in {j \in 1..Len(delivered[1]) : delivered[1][j].kind = "file"}}

\* the selected paths
SelectedKeys == {NormKey(files_for_content[i]) : i \in 1..Len(files_for_content)}

\* the details of key k hold no error and a content that is not None
HasCleanContent(k) ==
    /\ k \in DOMAIN file_details_map
    /\ file_details_map[k].d.error = None
    /\ file_details_map[k].d.content # None

\* C16: the File Contents section of a delivered document holds a block for a
\* selected path if and only if the details of that path have no error and a
\* content that is not None, and the block carries that content.
C16_BlockIffCleanContent ==
    genExit = "delivered" =>
        /\ \A k \in SelectedKeys :
              (\E b \in DeliveredBlocks : b.path = k) <=> HasCleanContent(k)
        /\ \A b \in DeliveredBlocks :
              /\ b.path \in SelectedKeys
              /\ HasCleanContent(b.path)
              /\ b.content = file_details_map[b.path].d.content[1]

\* a delivered document with a block for one selected file and none for
\* another, whose details hold an error
C16_Witness ==
    /\ genExit = "delivered"
    /\ \E k \in SelectedKeys : \E b \in DeliveredBlocks : b.path = k
    /\ \E k \in SelectedKeys :
          /\ k \in DOMAIN file_details_map
          /\ file_details_map[k].d.error # None
          /\ ~\E b \in DeliveredBlocks : b.path = k

\* the blocks of the delivered document, in their order
DeliveredBlockSeq == SelectSeq(delivered[1], LAMBDA b : b.kind = "file")

\* p comes before q in the scanned tree: a directory before what it holds,
\* and where the two paths part, directories before files and then by
\* name.lower() (scanner.py:187)
TreePrecedes(p, q) ==
    \/ Below(q, p)
    \/ \E i \in 1..Len(p) :
          /\ i <= Len(q)
          /\ SubSeq(p, 1, i - 1) = SubSeq(q, 1, i - 1)
          /\ p[i] # q[i]
          /\ LET a == [is_dir |-> IsDir(SubSeq(p, 1, i)), name |-> p[i]]
                 b == [is_dir |-> IsDir(SubSeq(q, 1, i)), name |-> q[i]]
             IN KeyLess(a, b)

\* C17 as claimed: the blocks of a delivered document follow the order of the
\* scanned tree (directories first, then files, by lower-cased name), so no
\* block comes after one that the tree puts behind it.
C17_AsClaimed ==
    genExit = "delivered" =>
        \A i, j \in 1..Len(DeliveredBlockSeq) :
            i < j => ~TreePrecedes(DeliveredBlockSeq[j].path, DeliveredBlockSeq[i].path)

\* the keys of the paths of the tree handed to the generation
GenTreeKeys == {NormKey(gen_files_for_tree[i]) : i \in 1..Len(gen_files_for_tree)}

\* C18 as claimed: a selected path that is absent from the tree is skipped by
\* the generation: no read task is ever submitted for it, and a delivered
\* document holds no block for it.
C18_AsClaimed ==
    \A k \in SelectedKeys \ GenTreeKeys :
        /\ \A i \in DOMAIN genFutures : NormKey(genFutures[i].path) # k
        /\ genExit = "delivered" => ~\E b \in DeliveredBlocks : b.path = k

\* the selected files above the size limit
OversizedSelected ==
    {k \in SelectedKeys : k \in UFiles /\ FileAttr(k).size > MAX_FILE_SIZE_BYTES}

\* C19 as claimed: a delivered document holds no block for a selected file
\* whose size is above MAX_FILE_SIZE_BYTES, whether its details came from the
\* cache or from _read_file_content_worker.
C19_AsClaimed ==
    genExit = "delivered" =>
        \A k \in OversizedSelected : ~\E b \in DeliveredBlocks : b.path = k
\* the read of the work item i failed: its file is not there or may not be opened
ReadFailed(i) == ReadDetails(disk, genFutures[i].path).error # None

\* C27: a read error on one selected file never aborts the generation: a
\* generation that saw no cancel hands a document to success_callback, the
\* error is stored in the details of the file whose read failed, and every
\* file that was read has its block in the document.
C27_AsClaimed ==
    /\ (genPc = "done" /\ ~gen_cancel /\ genFutures # <<>>) => genExit = "delivered"
    /\ genExit = "delivered" =>
          \A i \in DOMAIN genFutures :
              LET k == NormKey(genFutures[i].path) IN
              IF ReadFailed(i)
              THEN /\ k \in DOMAIN file_details_map
                   /\ file_details_map[k].d.error
                          = ReadDetails(disk, genFutures[i].path).error
              ELSE \E b \in DeliveredBlocks : b.path = k

-----------------------------------------------------------------------------
(* build_annotated_tree as a state machine *)

pRBO == <<nP, nRB, nO>>
pBSX == <<nP, nB, nS, nX>>

\* files_for_tree arguments: every node of a scanned tree (each directory's
\* sub-directories first), the files alone, and a tree without P/rb and P/b/S
RenderTrees ==
    { << <<nP>>, <<nP, nB>>, <<nP, nB, nS>>, pBSX, pBO, <<nP, nRB>>, pRBO, pA >>,
      << pA, pRBO, pBO, pBSX >>,
      files_for_tree }

\* files_for_content arguments: any set of files, in listing order
RenderSelections == {Keep(ListingOrder, S) : S \in SUBSET UFiles}

\* item_states arguments: nothing recorded, everything checked, the directory
\* P/b unchecked, the file P/b/o unchecked, the root unchecked
AllChecked == [p \in Universe |-> "checked"]
RenderItemStates ==
    { <<>>,
      AllChecked,
      [AllChecked EXCEPT ![<<nP, nB>>] = "unchecked"],
      [AllChecked EXCEPT ![pBO] = "unchecked"],
      [AllChecked EXCEPT ![<<nP>>] = "unchecked"] }

\* the details a scan leaves for a file (scanner.py:166-170)
DetailsFromScan(p) ==
    LET r == _process_file_for_scan(p) IN
    [kind |-> "details",
     d |-> [content |-> r.content, line_count |-> r.line_count, error |-> r.error]]

\* file_details_map arguments: empty, the details of a scan, and the map of a
\* generation that read P/a.l itself and has placeholders for the rest
RenderDetails ==
    { <<>>,
      [p \in UFiles |-> DetailsFromScan(p)],
      [p \in UFiles |->
          IF p = pA
          THEN [kind |-> "details",
                d |-> [content |-> Some(<<"x">>), line_count |-> Some(1), error |-> None]]
          ELSE [kind |-> "path",
                d |-> [content |-> None, line_count |-> None, error |-> None]]] }

RenderInit ==
    /\ renderArgs \in [files_for_tree : RenderTrees,
                       files_for_content : RenderSelections,
                       is_annotated_mode : BOOLEAN,
                       ignored_items : PatternSets,
                       item_states : RenderItemStates,
                       file_details_map : RenderDetails]
    /\ tree_dict = <<>>
    /\ renderIdx = 1
    /\ renderPc = "build"
    /\ tree_lines = <<>>

\* lines 12-43: one iteration of the loop over files_for_tree
TreeInsert ==
    /\ renderPc = "build"
    /\ renderIdx <= Len(renderArgs.files_for_tree)
    /\ tree_dict' = InsertPath(tree_dict, renderArgs.files_for_tree[renderIdx], renderArgs)
    /\ renderIdx' = renderIdx + 1
    /\ UNCHANGED <<renderArgs, renderPc, tree_lines>>
    /\ UNCHANGED <<scanVars, cacheVars, genVars, probeVars, appVars, tvVars>>

\* tree_dict.get(root_folder_name, {}) is a marker string: .keys() raises
RootIsMarker(td) == <<nP>> \in DOMAIN td /\ IsMarker(td[<<nP>>])

\* lines 120-123: the lines are generated and joined
GenerateLines ==
    /\ renderPc = "build"
    /\ renderIdx > Len(renderArgs.files_for_tree)
    /\ IF RootIsMarker(tree_dict)
       THEN /\ renderPc' = "raised"
            /\ UNCHANGED tree_lines
       ELSE /\ renderPc' = "done"
            /\ tree_lines' = RenderTree(tree_dict, renderArgs)
    /\ UNCHANGED <<renderArgs, tree_dict, renderIdx>>
    /\ UNCHANGED <<scanVars, cacheVars, genVars, probeVars, appVars, tvVars>>

RenderNext ==
    \/ TreeInsert
    \/ GenerateLines

InitRender == ScanIdle /\ RenderInit /\ CacheIdle /\ GenIdle /\ ProbeIdle /\ AppIdle /\ TvIdle

SpecRender == InitRender /\ [][RenderNext]_vars

-----------------------------------------------------------------------------
(* build_annotated_tree: claims *)

\* the rendering has returned its lines
RenderDone == renderPc = "done"

\* the paths that have a line of their own
EntryPaths == {tree_lines[i].path : i \in {j \in 1..Len(tree_lines) : tree_lines[j].kind = "entry"}}

\* the lines that stand for path p
LinesOf(p) == {i \in 1..Len(tree_lines) : tree_lines[i].kind = "entry" /\ tree_lines[i].path = p}

\* a directory with a file of the selection somewhere below it
HasSelectedDescendant(D) == \E f \in content_set(renderArgs) : Below(f, D)

\* C11 as claimed: in standard mode nothing below a directory without a
\* selected descendant file has a line in the rendered tree, whatever the
\* check states.
C11_AsClaimed ==
    (RenderDone /\ ~renderArgs.is_annotated_mode /\ renderArgs.files_for_content # <<>>) =>
        \A D \in UDirs \ {<<nP>>} :
            ~HasSelectedDescendant(D) => ~\E p \in EntryPaths : Below(p, D)


\* the files directly in directory D that standard mode has to skip: in the
\* tree, not marked, and not in the selection
SkippedAt(D) ==
    {f \in UFiles : /\ dirname(f) = D
                    /\ f \in DOMAIN tree_dict /\ tree_dict[f] = "DICT"
                    /\ f \notin content_set(renderArgs)}

\* the summary lines of directory D
SummaryLinesOf(D) ==
    {i \in 1..Len(tree_lines) : tree_lines[i].kind = "summary" /\ tree_lines[i].path = D}

\* C12 as claimed: in standard mode a file outside the selection has no line
\* (other than an "[ignored]" one), and a directory level that skipped N >= 1
\* files has exactly one summary line, with the number N of that level alone.
C12_AsClaimed ==
    (RenderDone /\ ~renderArgs.is_annotated_mode) =>
        /\ \A f \in UFiles \ content_set(renderArgs) :
              \A i \in LinesOf(f) : tree_lines[i].ann = <<Ann("ignored", 0, "")>>
        /\ \A D \in UDirs :
              (D \in DOMAIN tree_dict /\ tree_dict[D] = "DICT" /\ SkippedAt(D) # {}) =>
                  /\ Cardinality(SummaryLinesOf(D)) = 1
                  /\ \A i \in SummaryLinesOf(D) : tree_lines[i].n = Cardinality(SkippedAt(D))


\* the paths of files_for_tree
TreeArgPaths == {NormKey(renderArgs.files_for_tree[i]) : i \in 1..Len(renderArgs.files_for_tree)}

\* neither p nor a directory above it is ignored by the scanner's rule
NotUnderIgnored(p, pats) ==
    /\ ~Ignored(p, pats)
    /\ \A a \in Universe : Below(p, a) => ~Ignored(a, pats)

\* the annotations the specification gives an unselected file without error in
\* annotated mode: the line count when known, then "content omitted"
OmittedAnnotations(f) ==
    LET det == DetailsOf(renderArgs, f) IN
    (IF HasLineCount(det) THEN <<Ann("lines", det[1].d.line_count[1], "")>> ELSE <<>>)
    \o <<Ann("content omitted", 0, "")>>

\* C13 as claimed: in annotated mode every node of files_for_tree that is not
\* ignored has a line, whatever the selection and the check states, and the
\* line of a file outside the selection and without error carries "content
\* omitted", after its line count when that is known.
C13_AsClaimed ==
    (RenderDone /\ renderArgs.is_annotated_mode) =>
        /\ \A p \in TreeArgPaths \ {<<nP>>} :
              NotUnderIgnored(p, renderArgs.ignored_items) => p \in EntryPaths
        /\ \A f \in UFiles \ content_set(renderArgs) :
              \A i \in LinesOf(f) :
                  (~HasError(DetailsOf(renderArgs, f))
                   /\ tree_lines[i].ann # <<Ann("ignored", 0, "")>>)
                  => tree_lines[i].ann = OmittedAnnotations(f)


\* the entries of files_for_tree that a scan with these patterns marks ignored:
\* ignored themselves, below no ignored directory
ScannerIgnoredEntries ==
    {p \in TreeArgPaths \ {<<nP>>} :
        /\ Ignored(p, renderArgs.ignored_items)
        /\ \A a \in Universe : Below(p, a) => ~Ignored(a, renderArgs.ignored_items)}

\* standard mode collapses p or a directory above it as unchecked
UnderUnchecked(p) ==
    /\ ~renderArgs.is_annotated_mode
    /\ \E a \in Universe :
          (a = p \/ Below(p, a)) /\ StateOf(renderArgs.item_states, a) = "unchecked"

\* C14 as claimed: an entry the scanner marks ignored for the pattern set has,
\* in either mode, exactly one line, annotated "[ignored]", and nothing below
\* it has a line.
C14_AsClaimed ==
    RenderDone =>
        \A p \in ScannerIgnoredEntries :
            ~UnderUnchecked(p) =>
                /\ Cardinality(LinesOf(p)) = 1
                /\ \A i \in LinesOf(p) : tree_lines[i].ann = <<Ann("ignored", 0, "")>>
                /\ ~\E q \in EntryPaths : Below(q, p)


\* the annotations of sort t on line i
AnnsOf(i, t) == {k \in 1..Len(tree_lines[i].ann) : tree_lines[i].ann[k].t = t}

\* C15 as claimed: on the line of a file, an error in the details is shown and
\* the line count is not; without an error the line count is shown only if the
\* file is in the selection or the mode is annotated.
C15_AsClaimed ==
    RenderDone =>
        \A f \in UFiles :
            \A i \in LinesOf(f) :
                (f \in DOMAIN tree_dict /\ tree_dict[f] = "DICT") =>
                    LET det == DetailsOf(renderArgs, f) IN
                    IF HasError(det)
                    THEN /\ \E k \in AnnsOf(i, "error") :
                               tree_lines[i].ann[k].s = det[1].d.error[1]
                         /\ AnnsOf(i, "lines") = {}
                    ELSE AnnsOf(i, "lines") # {} =>
                            (f \in content_set(renderArgs) \/ renderArgs.is_annotated_mode)

-----------------------------------------------------------------------------
(* The workers and _is_path_ignored, one call at a time *)

\* a name that extends the name b
nBX == <<"b", "x">>

\* the sizes os.path.getsize may return
ProbeSizes == {0, 3, chunk_size + 1, MAX_FILE_SIZE_BYTES, MAX_FILE_SIZE_BYTES + 1}

\* the texts read() may return
ProbeTexts == { <<>>, <<"x">>, <<"x", "LF">>, <<"x", "LF", "x">> }

\* the files a worker may be handed: size, offset of the first null byte
\* (0: none), whether stat and open succeed, the errno when they do not, text
ProbeAttrs ==
    {a \in [size : ProbeSizes, first_null : {0, 1, chunk_size, chunk_size + 1},
            open_ok : BOOLEAN, read_ok : BOOLEAN, stat_ok : BOOLEAN, errno : {"ENOENT", "EACCES"},
            text : ProbeTexts] :
        /\ a.first_null <= a.size
        /\ a.size = 0 => a.text = <<>>
        /\ (a.open_ok /\ a.read_ok /\ a.stat_ok) => a.errno = "ENOENT"}

\* the relative paths _is_path_ignored may be asked about
ProbePaths ==
    { <<nB>>, <<nB, nO>>, <<nB, nS, nX>>, <<nRB>>, <<nRB, nO>>, <<nBX>>, <<nBX, nO>>,
      <<nAL>> }

\* the longest pattern list the loop of _is_path_ignored is run over
MaxPatterns == 2

\* every pattern of the pattern sets
AllPatterns == UNION PatternSets

\* the orders in which the for loop may meet the patterns of a set
PatternSeqs ==
    {q \in UNION {[1..n -> AllPatterns] : n \in 0..MaxPatterns} :
        \A i \in DOMAIN q : \A j \in DOMAIN q : q[i] = q[j] => i = j}

\* lines 89-96: what one pattern says about the path
PatternMatches(normalized_path, pattern) ==
    \/ fnmatch(Basename(normalized_path), pattern)
    \/ fnmatch(normalized_path, pattern)
    \/ /\ EndsWithSlash(pattern)
       /\ StartsWith(normalized_path, RStripSlash(pattern))

\* (mutant) the pattern met last decides
RECURSIVE IgnoredByLoop_LastDecides(_, _)
IgnoredByLoop_LastDecides(relative_path, patterns) ==
    IF patterns = <<>> THEN FALSE
    ELSE IF Len(patterns) = 1 THEN PatternMatches(relative_path, patterns[1])
    ELSE IgnoredByLoop_LastDecides(relative_path, Tail(patterns))

\* lines 88-98: the for loop over the patterns in the order patterns lists
\* them, left with True at the first pattern that matches
RECURSIVE IgnoredByLoop(_, _)
IgnoredByLoop(relative_path, patterns) ==
    IF patterns = <<>> THEN FALSE
    ELSE IF PatternMatches(relative_path, Head(patterns)) THEN TRUE
    ELSE IgnoredByLoop(relative_path, Tail(patterns))

ProbeInit ==
    /\ probe \in [kind : {"file"}, attr : ProbeAttrs]
                 \cup [kind : {"path"}, path : ProbePaths, patterns : PatternSets]
                 \cup [kind : {"loop"}, path : ProbePaths, patterns : PatternSeqs]
    /\ scanAnswer = None
    /\ readAnswer = None
    /\ ignoreAnswer = None

\* scanner.py lines 64-82 on the probed file
ProbeScanWorker ==
    /\ probe.kind = "file"
    /\ scanAnswer = None
    /\ scanAnswer' = Some(ClassifyAttr(probe.attr))
    /\ UNCHANGED <<probe, readAnswer, ignoreAnswer>>
    /\ UNCHANGED <<scanVars, cacheVars, genVars, renderVars, appVars, tvVars>>

\* generator.py lines 127-136 on the probed file
ProbeReadWorker ==
    /\ probe.kind = "file"
    /\ readAnswer = None
    /\ readAnswer' = Some(ReadAttr(probe.attr))
    /\ UNCHANGED <<probe, scanAnswer, ignoreAnswer>>
    /\ UNCHANGED <<scanVars, cacheVars, genVars, renderVars, appVars, tvVars>>

\* scanner.py lines 84-98 on the probed path
ProbeIgnore ==
    /\ probe.kind = "path"
    /\ ignoreAnswer = None
    /\ ignoreAnswer' = Some(_is_path_ignored(JoinSlash(probe.path), probe.patterns))
    /\ UNCHANGED <<probe, scanAnswer, readAnswer>>
    /\ UNCHANGED <<scanVars, cacheVars, genVars, renderVars, appVars, tvVars>>

\* scanner.py lines 84-98 on the probed path, patterns met in the probed order
ProbeIgnoreLoop ==
    /\ probe.kind = "loop"
    /\ ignoreAnswer = None
    /\ ignoreAnswer' = Some(IgnoredByLoop(JoinSlash(probe.path), probe.patterns))
    /\ UNCHANGED <<probe, scanAnswer, readAnswer>>
    /\ UNCHANGED <<scanVars, cacheVars, genVars, renderVars, appVars, tvVars>>

ProbeNext ==
    \/ ProbeScanWorker
    \/ ProbeReadWorker
    \/ ProbeIgnore
    \/ ProbeIgnoreLoop

InitProbe == ProbeInit /\ ScanIdle /\ CacheIdle /\ GenIdle /\ RenderIdle /\ AppIdle /\ TvIdle

SpecProbe == InitProbe /\ [][ProbeNext]_vars

-----------------------------------------------------------------------------
(* The workers and _is_path_ignored: claims *)

\* C21: a file whose size can be read and is within the limit is classified
\* as binary (error "binary", no content, no line count) if and only if a null
\* byte lies among its first chunk_size bytes or the open for the sniff fails;
\* a null byte only behind the first chunk_size bytes does not make it binary.
C21_BinaryIffNullInFirstChunk ==
    (probe.kind = "file" /\ scanAnswer # None
     /\ probe.attr.stat_ok /\ probe.attr.size <= MAX_FILE_SIZE_BYTES) =>
        LET a == probe.attr
            d == scanAnswer[1]
            nullInChunk == a.first_null >= 1 /\ a.first_null <= chunk_size
        IN /\ (d.error = Some("binary")) <=> (nullInChunk \/ ~a.open_ok)
           /\ d.error = Some("binary") => (d.content = None /\ d.line_count = None)
           /\ (a.open_ok /\ a.read_ok /\ a.first_null > chunk_size) => d.content # None

\* a readable file with its first null byte just behind the sniffed chunk has
\* been classified as text
C21_Witness ==
    /\ probe.kind = "file" /\ scanAnswer # None
    /\ probe.attr.stat_ok /\ probe.attr.open_ok
    /\ probe.attr.first_null = chunk_size + 1
    /\ scanAnswer[1].content # None


\* name n holds the name d as a run of characters and is longer than d
ContainsName(n, d) ==
    /\ n # d
    /\ \E i \in 1..(Len(n) - Len(d) + 1) : SubSeq(n, i, i + Len(d) - 1) = d

\* C22: with the pattern "b/" alone, _is_path_ignored is true for the path b
\* and for every path below the directory b, and false for every path outside
\* b's subtree whose first name only contains or extends the name b.
C22_AsClaimed ==
    (probe.kind = "path" /\ ignoreAnswer # None /\ probe.patterns = {pBslash}) =>
        /\ probe.path[1] = nB => ignoreAnswer[1]
        /\ ContainsName(probe.path[1], nB) => ~ignoreAnswer[1]
\* C32: the result of _is_path_ignored is the same for every order in which
\* the loop meets the patterns, and it is that of the pattern set; a pattern
\* added at either end never makes an ignored path not ignored.
C32_OrderFreeAndMonotone ==
    (probe.kind = "loop" /\ ignoreAnswer # None) =>
        LET path == JoinSlash(probe.path) IN
        /\ \A q \in PatternSeqs :
              Range(q) = Range(probe.patterns) => IgnoredByLoop(path, q) = ignoreAnswer[1]
        /\ ignoreAnswer[1] = _is_path_ignored(path, Range(probe.patterns))
        /\ ignoreAnswer[1] =>
              \A pattern \in AllPatterns :
                  /\ IgnoredByLoop(path, Append(probe.patterns, pattern))
                  /\ IgnoredByLoop(path, <<pattern>> \o probe.patterns)

\* a path was found ignored by the second of two patterns, the first of which
\* does not match it
C32_Witness ==
    /\ probe.kind = "loop" /\ ignoreAnswer = Some(TRUE)
    /\ Len(probe.patterns) = 2
    /\ ~PatternMatches(JoinSlash(probe.path), probe.patterns[1])
    /\ PatternMatches(JoinSlash(probe.path), probe.patterns[2])


\* C24: in every details record of the scan worker and of the generation read
\* worker, error and content are never both set: a record with an error has
\* no content and a record with content has no error.
C24_ErrorXorContent ==
    /\ scanAnswer # None =>
          ~(scanAnswer[1].error # None /\ scanAnswer[1].content # None)
    /\ readAnswer # None =>
          ~(readAnswer[1].error # None /\ readAnswer[1].content # None)

\* both workers answered for a file the scan worker refuses as binary and the
\* read worker reads
C24_Witness ==
    /\ scanAnswer # None /\ readAnswer # None
    /\ scanAnswer[1].error = Some("binary") /\ scanAnswer[1].content = None
    /\ readAnswer[1].content # None /\ readAnswer[1].error = None

\* the number of "\n" characters of a text
Newlines(text) == Cardinality({i \in 1..Len(text) : text[i] = "LF"})

\* C28: the line count recorded with a text is its number of "\n" characters
\* plus 1, so 1 for the empty text and 1 for a text without "\n", and the
\* scan worker and the generation read worker record the same line count for
\* the same content.
C28_LineCountIsNewlinesPlusOne ==
    /\ (scanAnswer # None /\ scanAnswer[1].content # None) =>
          /\ scanAnswer[1].line_count = Some(Newlines(scanAnswer[1].content[1]) + 1)
          /\ scanAnswer[1].content[1] = <<>> => scanAnswer[1].line_count = Some(1)
    /\ (readAnswer # None /\ readAnswer[1].content # None) =>
          /\ readAnswer[1].line_count = Some(Newlines(readAnswer[1].content[1]) + 1)
          /\ readAnswer[1].content[1] = <<>> => readAnswer[1].line_count = Some(1)
    /\ (scanAnswer # None /\ readAnswer # None
        /\ scanAnswer[1].content # None
        /\ scanAnswer[1].content = readAnswer[1].content) =>
          scanAnswer[1].line_count = readAnswer[1].line_count

\* both workers read a text that ends in "\n" and recorded two lines
C28_Witness ==
    /\ scanAnswer # None /\ readAnswer # None
    /\ scanAnswer[1].content = Some(<<"x", "LF">>)
    /\ readAnswer[1].content = Some(<<"x", "LF">>)
    /\ scanAnswer[1].line_count = Some(2)
    /\ readAnswer[1].line_count = Some(2)


-----------------------------------------------------------------------------
(* main_app.py: the scans of the application *)

\* the number of scans the user starts
MaxScans == 2

\* the number of times one scan polls the event before it has its tree
MaxPolls == 2

\* a scan thread: where it is in _scan_folder_thread_fast, the polls
\* scan_directory_fast has still to make, and whether it came back with a tree
ScanThread(pc, polls, has_tree) == [pc |-> pc, polls |-> polls, has_tree |-> has_tree]

\* Thread.is_alive()
is_alive(t) == t \in DOMAIN threads /\ threads[t].pc # "dead"

AppInit ==
    /\ cancel_scan = FALSE
    /\ scan_thread = 0
    /\ current_operation = "none"
    /\ scanned_tree_data = 0
    /\ threads = <<>>
    /\ after_queue = <<>>
    /\ tree_view = [shows |-> "nothing"]
    /\ cancel_requested = {}

\* lines 135-167, _load_folder (from select_folder, handle_drop, F5): the
\* old data is dropped, the event is cleared and a new scan thread is started
\* with the event of the application; polls is the size of the folder
LoadFolder(polls) ==
    /\ Len(threads) < MaxScans
    /\ scanned_tree_data' = 0
    /\ tree_view' = [shows |-> "scanning"]
    /\ current_operation' = "scan"
    /\ cancel_scan' = FALSE
    /\ threads' = Append(threads, ScanThread("scan", polls, FALSE))
    /\ scan_thread' = Len(threads) + 1
    /\ UNCHANGED <<after_queue, cancel_requested>>
    /\ UNCHANGED <<scanVars, cacheVars, genVars, renderVars, probeVars, tvVars>>

\* lines 304-312, cancel_current_operation with the dialog confirmed: the
\* event is set while a scan is the current operation and its thread lives
CancelCurrentOperation ==
    /\ current_operation = "scan"
    /\ scan_thread # 0 /\ is_alive(scan_thread)
    /\ cancel_scan' = TRUE
    /\ cancel_requested' = cancel_requested \cup {scan_thread}
    /\ UNCHANGED <<scan_thread, current_operation, scanned_tree_data, threads,
                   after_queue, tree_view>>
    /\ UNCHANGED <<scanVars, cacheVars, genVars, renderVars, probeVars, tvVars>>

\* line 173, scan_directory_fast: one poll of the event (scanner.py lines 113
\* and 163); a set event ends the scan with None, the last poll with the tree
ScanPoll(t) ==
    /\ t \in DOMAIN threads /\ threads[t].pc = "scan"
    /\ threads' = [threads EXCEPT ![t] =
                      IF cancel_scan THEN ScanThread("check", 0, FALSE)
                      ELSE IF threads[t].polls = 1 THEN ScanThread("check", 0, TRUE)
                      ELSE ScanThread("scan", threads[t].polls - 1, FALSE)]
    /\ UNCHANGED <<cancel_scan, scan_thread, current_operation, scanned_tree_data,
                   after_queue, tree_view, cancel_requested>>
    /\ UNCHANGED <<scanVars, cacheVars, genVars, renderVars, probeVars, tvVars>>

\* lines 174 and 177-178: tree_data and not cancel_event.is_set(), and the
\* elif that queues the reset of a cancelled scan
ThreadCheck(t) ==
    /\ t \in DOMAIN threads /\ threads[t].pc = "check"
    /\ IF threads[t].has_tree /\ ~cancel_scan
       THEN /\ threads' = [threads EXCEPT ![t].pc = "deliver"]
            /\ UNCHANGED after_queue
       ELSE /\ threads' = [threads EXCEPT ![t].pc = "finally"]
            /\ after_queue' = IF cancel_scan
                              THEN Append(after_queue, [fn |-> "reset", cancelled |-> TRUE])
                              ELSE after_queue
    /\ UNCHANGED <<cancel_scan, scan_thread, current_operation, scanned_tree_data,
                   tree_view, cancel_requested>>
    /\ UNCHANGED <<scanVars, cacheVars, genVars, renderVars, probeVars, tvVars>>

\* lines 175-176: the tree is stored and _populate_tree_ui is queued
ThreadDeliver(t) ==
    /\ t \in DOMAIN threads /\ threads[t].pc = "deliver"
    /\ scanned_tree_data' = t
    /\ after_queue' = Append(after_queue, [fn |-> "populate", tree_data |-> t])
    /\ threads' = [threads EXCEPT ![t].pc = "finally"]
    /\ UNCHANGED <<cancel_scan, scan_thread, current_operation, tree_view,
                   cancel_requested>>
    /\ UNCHANGED <<scanVars, cacheVars, genVars, renderVars, probeVars, tvVars>>

\* lines 185-187: finally queues _reset_ui_after_scan(cancel_event.is_set())
ThreadFinally(t) ==
    /\ t \in DOMAIN threads /\ threads[t].pc = "finally"
    /\ after_queue' = Append(after_queue, [fn |-> "reset", cancelled |-> cancel_scan])
    /\ threads' = [threads EXCEPT ![t].pc = "dead"]
    /\ UNCHANGED <<cancel_scan, scan_thread, current_operation, scanned_tree_data,
                   tree_view, cancel_requested>>
    /\ UNCHANGED <<scanVars, cacheVars, genVars, renderVars, probeVars, tvVars>>

\* the Tk main loop runs the oldest queued callback: _populate_tree_ui
\* (lines 189-202) or _reset_ui_after_scan (lines 204-226)
MainLoop ==
    /\ after_queue # <<>>
    /\ LET cb == Head(after_queue) IN
       IF cb.fn = "populate"
       THEN /\ tree_view' = [shows |-> "tree", tree_data |-> cb.tree_data]
            /\ UNCHANGED current_operation
       ELSE /\ current_operation' = "none"
            /\ tree_view' = IF cb.cancelled THEN [shows |-> "cancelled"] ELSE tree_view
    /\ after_queue' = Tail(after_queue)
    /\ UNCHANGED <<cancel_scan, scan_thread, scanned_tree_data, threads, cancel_requested>>
    /\ UNCHANGED <<scanVars, cacheVars, genVars, renderVars, probeVars, tvVars>>

AppNext ==
    \/ \E polls \in 1..MaxPolls : LoadFolder(polls)
    \/ CancelCurrentOperation
    \/ \E t \in DOMAIN threads : ScanPoll(t)
    \/ \E t \in DOMAIN threads : ThreadCheck(t)
    \/ \E t \in DOMAIN threads : ThreadDeliver(t)
    \/ \E t \in DOMAIN threads : ThreadFinally(t)
    \/ MainLoop

InitApp == AppInit /\ ScanIdle /\ CacheIdle /\ GenIdle /\ RenderIdle /\ ProbeIdle /\ TvIdle

SpecApp == InitApp /\ [][AppNext]_vars

-----------------------------------------------------------------------------
(* main_app.py: claims *)

\* C30: once the cancellation of a scan has been requested, that scan never
\* delivers a tree: its thread does not store its tree in scanned_tree_data,
\* and the tree view is not populated from it, also when a new scan was
\* started before the cancelled scan polled the event.
C30_AsClaimed ==
    [][/\ \A t \in DOMAIN threads :
             (t \in cancel_requested /\ threads[t].pc = "deliver")
                 => threads'[t].pc = "deliver"
       /\ \A t \in cancel_requested :
             tree_view' = [shows |-> "tree", tree_data |-> t]
                 => tree_view = [shows |-> "tree", tree_data |-> t]]_vars


\* the main loop runs _reset_ui_after_scan(True) in this step
ReportsCancelled ==
    /\ after_queue # <<>>
    /\ Head(after_queue) = [fn |-> "reset", cancelled |-> TRUE]
    /\ after_queue' = Tail(after_queue)

\* C31: whenever the application reports a scan as cancelled
\* (_reset_ui_after_scan runs with cancelled true), scanned_tree_data is None,
\* wherever the event was set relative to the checks of the scan thread.
C31_AsClaimed ==
    [][ReportsCancelled => (scanned_tree_data = 0 /\ scanned_tree_data' = 0)]_vars

\* C35: every call of generate_text_content_fast comes to its end and has then
\* invoked final_callback exactly once, on each of its exits (the document
\* delivered, cancelled at a check point, an unexpected exception); nothing
\* of the call happens after final_callback (no document is handed over, no
\* worker runs, the cache is not touched), and success_callback is invoked at
\* most once.
GenExits == {"delivered", "cancelled", "exception"}

C35_FinalCallbackOnceAndLast ==
    /\ <>(genPc = "done")
    /\ [](genPc = "done" <=> final_calls = 1)
    /\ [](final_calls <= 1 /\ Len(delivered) <= 1)
    /\ [](genPc \in {"finally", "done"} => genExit \in GenExits)
    /\ [](genPc = "done" =>
            GenRunning = {})
    /\ [][final_calls = 1 => UNCHANGED <<genVars, cacheVars>>]_vars

C35_Witness ==
    /\ genPc = "done"
    /\ genExit = "exception"
    /\ final_calls = 1
    /\ delivered = <<>>

\* C36: when a scan is requested while an earlier scan thread still runs, then
\* once every scan thread has ended and every queued callback has run, the
\* tree held in scanned_tree_data and the tree shown in the tree view are those
\* of the scan requested last, never those of an earlier scan.
AllScansOver ==
    /\ threads # <<>>
    /\ \A t \in DOMAIN threads : ~is_alive(t)
    /\ after_queue = <<>>

C36_AsClaimed ==
    AllScansOver =>
        /\ scanned_tree_data \in {0, Len(threads)}
        /\ tree_view.shows = "tree" => tree_view.tree_data = Len(threads)

-----------------------------------------------------------------------------
(* treeview_manager.py: the Treeview widget and TreeViewManager.  The
   repository holds two of them: src/treeview_manager.py ("plain": every
   method works on the widget at once) and src/src/treeview_manager.py
   ("animated": clear_tree, populate_from_data and check_all work through
   root.after timers), which is the one main_app.py constructs *)

\* src/src/treeview_manager.py: the delays of root.after, in milliseconds
clear_delay == 10
populate_delay == 100
insert_delay == 5
child_delay == 1
check_delay == 10

\* the tree a scan returned: P holds the directories b (with the ignored file
\* n and the file o) and x (ignored, hence bare) and the file a; children are
\* in the order of the scan (directories first, then by name)
TvData ==
    [P |-> [is_dir |-> TRUE,  is_ignored |-> FALSE, children |-> <<"b", "x", "a">>],
     b |-> [is_dir |-> TRUE,  is_ignored |-> FALSE, children |-> <<"n", "o">>],
     x |-> [is_dir |-> TRUE,  is_ignored |-> TRUE,  children |-> <<>>],
     a |-> [is_dir |-> FALSE, is_ignored |-> FALSE, children |-> <<>>],
     n |-> [is_dir |-> FALSE, is_ignored |-> TRUE,  children |-> <<>>],
     o |-> [is_dir |-> FALSE, is_ignored |-> FALSE, children |-> <<>>]]

TvRoot == "P"

\* the item of a node: values = (path, state); the placeholder lines that
\* main_app.py inserts have a text and no values (state "none")
TvItem(parent, node, state) == [parent |-> parent, node |-> node, state |-> state]

RECURSIVE SortedIds(_)
SortedIds(S) ==
    IF S = {} THEN <<>>
    ELSE LET m == CHOOSE x \in S : \A y \in S : x <= y
         IN <<m>> \o SortedIds(S \ {m})

\* tree.get_children(item): the children in the order of their insertion
\* (every insert is at "end", ids grow); item 0 is the widget's root ""
get_children(items, item) ==
    SortedIds({i \in DOMAIN items : items[i].parent = item})

RECURSIVE TvSubtree(_, _)
TvSubtree(items, item) ==
    {item} \cup UNION {TvSubtree(items, c) :
                          c \in {i \in DOMAIN items : items[i].parent = item}}

\* tree.delete(item): the item and everything below it
tree_delete(items, item) ==
    [i \in DOMAIN items \ TvSubtree(items, item) |-> items[i]]

\* tree.insert(parent, "end", ...) raises TclError when the parent is gone
CanInsert(items, parent) == parent = 0 \/ parent \in DOMAIN items

\* the widget and the manager's fields while a method runs
TvState == [items |-> tv_items, next |-> tv_next, running |-> animation_running,
            timers |-> timers]

tree_insert(tv, parent, node, state) ==
    [tv EXCEPT !.items = (tv.next :> TvItem(parent, node, state)) @@ tv.items,
               !.next = tv.next + 1]

\* a callback handed to root.after (arg: the node to insert, or the state to set)
Cb(fn, items, index, arg, parent) ==
    [due |-> 0, fn |-> fn, items |-> items, index |-> index, arg |-> arg,
     parent |-> parent]

\* root.after(ms, cb): Tk keeps the timers by due time, equal times in the
\* order of their registration
after(tms, ms, cb) ==
    LET k == Cardinality({i \in DOMAIN tms : tms[i].due <= ms})
    IN SubSeq(tms, 1, k) \o <<[cb EXCEPT !.due = ms]>> \o SubSeq(tms, k + 1, Len(tms))

\* src/src lines 62-72, animate_clear(index): index counts from 1 here
animate_clear(tv, items, index) ==
    IF index > Len(items)
    THEN [tv EXCEPT !.running = FALSE]
    ELSE [tv EXCEPT !.items = tree_delete(tv.items, items[index]),
                    !.timers = after(tv.timers, clear_delay,
                                     Cb("animate_clear", items, index + 1, "", 0))]

\* src/src lines 50-74, clear_tree
clear_tree(tv) ==
    IF tv.running THEN tv
    ELSE LET items == get_children(tv.items, 0) IN
         IF items = <<>> THEN tv
         ELSE animate_clear([tv EXCEPT !.running = TRUE], items, 1)

\* src lines 30-33, clear_tree
clear_tree_plain(tv) == [tv EXCEPT !.items = <<>>]

\* src/src lines 76-83, populate_from_data (root_node_data is a tree)
populate_from_data(tv) ==
    LET c == clear_tree(tv) IN
    [c EXCEPT !.timers = after(c.timers, populate_delay,
                               Cb("_populate_with_animation", <<>>, 0, "", 0))]

\* src/src lines 85-102, _populate_with_animation
_populate_with_animation(tv) ==
    LET c == clear_tree(tv) IN
    [c EXCEPT !.timers = after(c.timers, insert_delay,
                               Cb("delayed_populate", <<>>, 0, "", 0))]

\* src/src lines 104-112, _populate_recursive_animated: one timer per child,
\* the i-th after delay * i
RECURSIVE _populate_recursive_animated(_, _, _, _, _)
_populate_recursive_animated(tms, children_data, i, parent_node, delay) ==
    IF i > Len(children_data) THEN tms
    ELSE _populate_recursive_animated(
             after(tms, delay * i,
                   Cb("_insert_item_animated", <<>>, 0, children_data[i], parent_node)),
             children_data, i + 1, parent_node, delay)

\* src/src lines 89-100, delayed_populate
delayed_populate(tv) ==
    LET ins == tree_insert(tv, 0, TvRoot, "root_state") IN
    [ins EXCEPT !.timers = _populate_recursive_animated(
                               ins.timers, TvData[TvRoot].children, 1, tv.next,
                               insert_delay)]

\* src/src lines 114-132, _insert_item_animated: the TclError of a parent that
\* is gone is caught and logged
_insert_item_animated(tv, node, parent_node) ==
    IF ~CanInsert(tv.items, parent_node) THEN tv
    ELSE IF TvData[node].is_ignored
    THEN tree_insert(tv, parent_node, node, "ignored")
    ELSE LET ins == tree_insert(tv, parent_node, node, "checked") IN
         [ins EXCEPT !.timers = _populate_recursive_animated(
                                    ins.timers, TvData[node].children, 1, tv.next,
                                    child_delay)]

\* src lines 49-72, _populate_recursive
RECURSIVE _populate_recursive(_, _, _)
_populate_recursive(tv, children_data, parent_node) ==
    IF children_data = <<>> THEN tv
    ELSE LET node == Head(children_data) IN
         IF TvData[node].is_ignored
         THEN _populate_recursive(tree_insert(tv, parent_node, node, "ignored"),
                                  Tail(children_data), parent_node)
         ELSE _populate_recursive(
                  _populate_recursive(tree_insert(tv, parent_node, node, "checked"),
                                      TvData[node].children, tv.next),
                  Tail(children_data), parent_node)

\* src lines 35-47, populate_from_data
populate_from_data_plain(tv) ==
    LET c == clear_tree_plain(tv) IN
    _populate_recursive(tree_insert(c, 0, TvRoot, "root_state"),
                        TvData[TvRoot].children, c.next)

\* the guard of both update_check_state and toggle_check_state: the item has
\* values and is neither ignored nor the root
Togglable(items, item_id) ==
    /\ item_id \in DOMAIN items
    /\ items[item_id].state \notin {"none", "ignored", "root_state"}

SetState(items, item_id, state) == [items EXCEPT ![item_id].state = state]

\* src/src lines 392-404, _update_children_recursive (kids: the children
\* still to visit)
RECURSIVE _update_children_recursive(_, _, _)
_update_children_recursive(items, kids, state) ==
    IF kids = <<>> THEN items
    ELSE LET child_id == Head(kids) IN
         IF Togglable(items, child_id)
         THEN _update_children_recursive(
                  _update_children_recursive(SetState(items, child_id, state),
                                             get_children(items, child_id), state),
                  Tail(kids), state)
         ELSE _update_children_recursive(items, Tail(kids), state)

\* (mutant) update_check_state without the guard of lines 380-382
update_check_state_Unguarded(items, item_id, state) ==
    IF item_id \notin DOMAIN items THEN items
    ELSE _update_children_recursive(SetState(items, item_id, state),
                                    get_children(items, item_id), state)

\* src/src lines 377-390, update_check_state
update_check_state(items, item_id, state) ==
    IF ~Togglable(items, item_id) THEN items
    ELSE _update_children_recursive(SetState(items, item_id, state),
                                    get_children(items, item_id), state)

\* (mutant) update_check_state that leaves the children as they are
RECURSIVE update_check_state_plain_ItemOnly(_, _, _)
update_check_state_plain_ItemOnly(items, todo, state) ==
    IF todo = <<>> THEN items
    ELSE LET item_id == Head(todo) IN
         IF Togglable(items, item_id)
         THEN update_check_state_plain_ItemOnly(SetState(items, item_id, state),
                                                Tail(todo), state)
         ELSE update_check_state_plain_ItemOnly(items, Tail(todo), state)

\* src lines 113-133, update_check_state: the loop over the children calls
\* update_check_state itself (todo: the items still to visit, each with all
\* that is below it)
RECURSIVE update_check_state_plain(_, _, _)
update_check_state_plain(items, todo, state) ==
    IF todo = <<>> THEN items
    ELSE LET item_id == Head(todo) IN
         IF Togglable(items, item_id)
         THEN update_check_state_plain(
                  update_check_state_plain(SetState(items, item_id, state),
                                           get_children(items, item_id), state),
                  Tail(todo), state)
         ELSE update_check_state_plain(items, Tail(todo), state)

\* update_check_state of the build that is loaded
UpdateIn(build, items, item_id, state) ==
    IF build = "animated" THEN update_check_state(items, item_id, state)
    ELSE update_check_state_plain(items, <<item_id>>, state)

\* src lines 106-111 and src/src lines 364-375, toggle_check_state
toggle_check_state(build, items, item_id) ==
    IF ~Togglable(items, item_id) THEN items
    ELSE UpdateIn(build, items, item_id,
                  IF items[item_id].state = "checked" THEN "unchecked" ELSE "checked")

\* src/src lines 451-463, animate_check / animate_uncheck (index from 1): an
\* item that is gone raises TclError, which is passed over
animate_check(tv, children, index, state) ==
    IF index > Len(children) THEN tv
    ELSE [tv EXCEPT !.items = IF Togglable(tv.items, children[index])
                              THEN update_check_state(tv.items, children[index], state)
                              ELSE tv.items,
                    !.timers = after(tv.timers, check_delay,
                                     Cb("animate_check", children, index + 1, state, 0))]

\* src/src lines 433-449 and 467-483, check_all / uncheck_all
check_all(tv, state) ==
    LET root_items == get_children(tv.items, 0) IN
    IF root_items = <<>> THEN tv
    ELSE LET children == get_children(tv.items, root_items[1]) IN
         IF children = <<>> THEN tv
         ELSE animate_check(tv, children, 1, state)

\* src lines 223-241, check_all, uncheck_all, check_selected and
\* uncheck_selected: update_check_state on each item of the list
check_all_plain(items, ids, state) == update_check_state_plain(items, ids, state)

\* os.path.isfile and os.path.isdir of an item's path; missing: the nodes
\* whose path is gone from the disk since the scan
tv_isfile(node, missing) == ~TvData[node].is_dir /\ node \notin missing
tv_isdir(node, missing) == TvData[node].is_dir /\ node \notin missing

\* (mutant) get_checked_files that looks at the state of the file only
RECURSIVE get_checked_files_AnyParent(_, _, _)
get_checked_files_AnyParent(items, todo, missing) ==
    IF todo = <<>> THEN <<>>
    ELSE LET item_id == Head(todo)
             it == items[item_id]
         IN (IF it.state = "none" THEN <<>>
             ELSE (IF tv_isfile(it.node, missing) /\ it.state = "checked"
                   THEN <<it.node>> ELSE <<>>)
                  \o get_checked_files_AnyParent(items, get_children(items, item_id),
                                                 missing))
            \o get_checked_files_AnyParent(items, Tail(todo), missing)

\* src lines 135-158 and src/src lines 406-431, get_checked_files (todo: the
\* items still to visit; the paths are returned as the nodes' names)
RECURSIVE get_checked_files(_, _, _)
get_checked_files(items, todo, missing) ==
    IF todo = <<>> THEN <<>>
    ELSE LET item_id == Head(todo)
             it == items[item_id]
         IN (IF it.state \in {"checked", "root_state"}
             THEN (IF tv_isfile(it.node, missing) /\ it.state = "checked"
                   THEN <<it.node>> ELSE <<>>)
                  \o (IF tv_isdir(it.node, missing)
                      THEN get_checked_files(items, get_children(items, item_id), missing)
                      ELSE <<>>)
             ELSE <<>>)
            \o get_checked_files(items, Tail(todo), missing)

\* clear_tree and populate_from_data of the build that is loaded
ClearIn(build, tv) == IF build = "animated" THEN clear_tree(tv) ELSE clear_tree_plain(tv)

PopulateIn(build, tv) ==
    IF build = "animated" THEN populate_from_data(tv) ELSE populate_from_data_plain(tv)

\* the timer callback cb runs
RunCb(tv, cb) ==
    CASE cb.fn = "animate_clear" -> animate_clear(tv, cb.items, cb.index)
      [] cb.fn = "_populate_with_animation" -> _populate_with_animation(tv)
      [] cb.fn = "delayed_populate" -> delayed_populate(tv)
      [] cb.fn = "_insert_item_animated" -> _insert_item_animated(tv, cb.arg, cb.parent)
      [] cb.fn = "animate_check" -> animate_check(tv, cb.items, cb.index, cb.arg)

SetTv(tv) ==
    /\ tv_items' = tv.items
    /\ tv_next' = tv.next
    /\ animation_running' = tv.running
    /\ timers' = tv.timers

-----------------------------------------------------------------------------
(* Bounds of the tree view specifications *)

\* _load_folder is called at most MaxLoads times
MaxLoads == 2

\* check_all and uncheck_all start no animation while MaxTimers are pending
MaxTimers == 1

\* tree.selection() holds at most MaxSelected items
MaxSelected == 1

-----------------------------------------------------------------------------
(* The tree view while folders are loaded: _load_folder, the end of a scan
   and the timers, 1 ms at a time *)

TvLoadInit ==
    /\ tv_build \in {"plain", "animated"}
    /\ tv_items = <<>>
    /\ tv_next = 1
    /\ animation_running = FALSE
    /\ timers = <<>>
    /\ scans_running = 0
    /\ tv_loads = 0
    /\ checked_files = <<>>

\* main_app.py lines 146-149 and 157-163, _load_folder: clear_tree, the
\* "Scanning..." line, and a scan thread
TvLoadFolder ==
    /\ tv_loads < MaxLoads
    /\ SetTv(tree_insert(ClearIn(tv_build, TvState), 0, "placeholder", "none"))
    /\ scans_running' = scans_running + 1
    /\ tv_loads' = tv_loads + 1
    /\ checked_files' = <<>>
    /\ UNCHANGED tv_build
    /\ UNCHANGED <<scanVars, cacheVars, genVars, renderVars, probeVars, appVars>>

\* main_app.py lines 174-176 and 189-202: a scan ends with a tree and the main
\* loop runs _populate_tree_ui, which calls populate_from_data
TvPopulateTreeUi ==
    /\ scans_running > 0
    /\ SetTv(PopulateIn(tv_build, TvState))
    /\ scans_running' = scans_running - 1
    /\ checked_files' = <<>>
    /\ UNCHANGED <<tv_build, tv_loads>>
    /\ UNCHANGED <<scanVars, cacheVars, genVars, renderVars, probeVars, appVars>>

\* one millisecond passes; a timer that is due runs first
TvTick ==
    /\ timers # <<>>
    /\ Head(timers).due > 0
    /\ timers' = [i \in DOMAIN timers |-> [timers[i] EXCEPT !.due = @ - 1]]
    /\ UNCHANGED <<tv_build, tv_items, tv_next, animation_running, scans_running,
                   tv_loads, checked_files>>
    /\ UNCHANGED <<scanVars, cacheVars, genVars, renderVars, probeVars, appVars>>

\* the main loop runs the timer callback that is due
TvFire ==
    /\ timers # <<>>
    /\ Head(timers).due = 0
    /\ SetTv(RunCb([TvState EXCEPT !.timers = Tail(timers)], Head(timers)))
    /\ checked_files' = <<>>
    /\ UNCHANGED <<tv_build, scans_running, tv_loads>>
    /\ UNCHANGED <<scanVars, cacheVars, genVars, renderVars, probeVars, appVars>>

TvLoadNext ==
    \/ TvLoadFolder
    \/ TvPopulateTreeUi
    \/ TvTick
    \/ TvFire

TvOthersIdle == ScanIdle /\ CacheIdle /\ GenIdle /\ RenderIdle /\ ProbeIdle /\ AppIdle

InitTreeLoad == TvLoadInit /\ TvOthersIdle

SpecTreeLoad == InitTreeLoad /\ [][TvLoadNext]_vars


-----------------------------------------------------------------------------
(* The tree view once it is populated: the check operations of
   TreeViewManager, get_checked_files, and the timers of check_all *)

\* the tree view after populate_from_data(TvData) and all its callbacks
TvPopulated ==
    populate_from_data_plain([items |-> <<>>, next |-> 1, running |-> FALSE,
                              timers |-> <<>>])

CheckStates == {"checked", "unchecked"}

\* what tree.selection() may return
TvSelections(items) == {sel \in SUBSET DOMAIN items : Cardinality(sel) <= MaxSelected}

\* the sets of nodes that may be gone from the disk: what lies below a
\* directory that is gone is gone too
MissingSets ==
    {m \in SUBSET DOMAIN TvData :
        \A d \in m : \A i \in DOMAIN TvData[d].children : TvData[d].children[i] \in m}

TvTreeInit ==
    /\ tv_build \in {"plain", "animated"}
    /\ tv_items = TvPopulated.items
    /\ tv_next = TvPopulated.next
    /\ animation_running = FALSE
    /\ timers = <<>>
    /\ scans_running = 0
    /\ tv_loads = 1
    /\ checked_files = <<>>

\* toggle_check_state(item_id), from a click on the checkbox or the space bar
TvToggleCheckState(item_id) ==
    /\ tv_items' = toggle_check_state(tv_build, tv_items, item_id)
    /\ checked_files' = <<>>
    /\ UNCHANGED <<tv_build, tv_next, animation_running, timers, scans_running,
                   tv_loads>>
    /\ UNCHANGED <<scanVars, cacheVars, genVars, renderVars, probeVars, appVars>>

\* update_check_state(item_id, state)
TvUpdateCheckState(item_id, state) ==
    /\ tv_items' = UpdateIn(tv_build, tv_items, item_id, state)
    /\ checked_files' = <<>>
    /\ UNCHANGED <<tv_build, tv_next, animation_running, timers, scans_running,
                   tv_loads>>
    /\ UNCHANGED <<scanVars, cacheVars, genVars, renderVars, probeVars, appVars>>

\* check_all and uncheck_all of the build that is loaded
CheckAllTo(state) ==
    /\ IF tv_build = "animated"
       THEN /\ Len(timers) < MaxTimers
            /\ SetTv(check_all(TvState, state))
       ELSE /\ tv_items' = check_all_plain(tv_items, get_children(tv_items, 0), state)
            /\ UNCHANGED <<tv_next, animation_running, timers>>
    /\ checked_files' = <<>>
    /\ UNCHANGED <<tv_build, scans_running, tv_loads>>

TvCheckAll ==
    /\ CheckAllTo("checked")
    /\ UNCHANGED <<scanVars, cacheVars, genVars, renderVars, probeVars, appVars>>

TvUncheckAll ==
    /\ CheckAllTo("unchecked")
    /\ UNCHANGED <<scanVars, cacheVars, genVars, renderVars, probeVars, appVars>>

\* src lines 235-241, check_selected and uncheck_selected: tree.selection()
\* is sel (the animated manager has no such methods)
SelectedTo(sel, state) ==
    /\ tv_build = "plain"
    /\ tv_items' = check_all_plain(tv_items, SortedIds(sel), state)
    /\ checked_files' = <<>>
    /\ UNCHANGED <<tv_build, tv_next, animation_running, timers, scans_running,
                   tv_loads>>

TvCheckSelected(sel) ==
    /\ SelectedTo(sel, "checked")
    /\ UNCHANGED <<scanVars, cacheVars, genVars, renderVars, probeVars, appVars>>

TvUncheckSelected(sel) ==
    /\ SelectedTo(sel, "unchecked")
    /\ UNCHANGED <<scanVars, cacheVars, genVars, renderVars, probeVars, appVars>>

\* get_checked_files(), while the nodes of missing are gone from the disk
TvGetCheckedFiles(missing) ==
    /\ checked_files' =
          <<[files |-> get_checked_files(tv_items, get_children(tv_items, 0), missing),
             missing |-> missing]>>
    /\ UNCHANGED <<tv_build, tv_items, tv_next, animation_running, timers,
                   scans_running, tv_loads>>
    /\ UNCHANGED <<scanVars, cacheVars, genVars, renderVars, probeVars, appVars>>

\* the main loop sleeps until the next timer is due (all timers of check_all
\* have the same delay, so only their order counts)
TvSleep ==
    /\ timers # <<>>
    /\ Head(timers).due > 0
    /\ timers' = [i \in DOMAIN timers |->
                    [timers[i] EXCEPT !.due = @ - Head(timers).due]]
    /\ UNCHANGED <<tv_build, tv_items, tv_next, animation_running, scans_running,
                   tv_loads, checked_files>>
    /\ UNCHANGED <<scanVars, cacheVars, genVars, renderVars, probeVars, appVars>>

TvTreeNext ==
    \/ \E item_id \in DOMAIN tv_items : TvToggleCheckState(item_id)
    \/ \E item_id \in DOMAIN tv_items, state \in CheckStates :
          TvUpdateCheckState(item_id, state)
    \/ TvCheckAll
    \/ TvUncheckAll
    \/ \E sel \in TvSelections(tv_items) : TvCheckSelected(sel)
    \/ \E sel \in TvSelections(tv_items) : TvUncheckSelected(sel)
    \/ \E missing \in MissingSets : TvGetCheckedFiles(missing)
    \/ TvSleep
    \/ TvFire

InitTree == TvTreeInit /\ TvOthersIdle

SpecTree == InitTree /\ [][TvTreeNext]_vars

-----------------------------------------------------------------------------
(* The tree view: claims *)

\* every scan has ended with its tree, populate_from_data has run for it, and
\* every timer callback has run
TvSettled ==
    /\ tv_loads > 0
    /\ scans_running = 0
    /\ timers = <<>>

\* C37: once populate_from_data and all the timer callbacks it schedules have
\* run, whatever the interleaving with the callbacks of clear_tree and with
\* the placeholder line of _load_folder, the tree view holds exactly one
\* top-level item, the scan root in state root_state, and no placeholder or
\* item of an earlier tree.
C37_AsClaimed ==
    TvSettled =>
        LET top == get_children(tv_items, 0) IN
        /\ Len(top) = 1
        /\ tv_items[top[1]].node = TvRoot
        /\ tv_items[top[1]].state = "root_state"


\* C38: toggle_check_state, update_check_state, check_all, uncheck_all,
\* check_selected and uncheck_selected never change the state of an ignored
\* item or of the root: after any sequence of them every item that was
\* "ignored" is "ignored" and the root item is "root_state".
C38_IgnoredAndRootKeepState ==
    /\ [](\A i \in DOMAIN tv_items :
            /\ TvData[tv_items[i].node].is_ignored => tv_items[i].state = "ignored"
            /\ tv_items[i].node = TvRoot => tv_items[i].state = "root_state")
    /\ [][\A i \in DOMAIN tv_items :
            tv_items[i].state \in {"ignored", "root_state"}
                => (i \in DOMAIN tv_items' /\ tv_items'[i].state = tv_items[i].state)]_vars

\* an ignored item and the root have kept their state while the items around
\* them were unchecked
C38_Witness ==
    /\ \E i \in DOMAIN tv_items : tv_items[i].state = "ignored"
    /\ \E i \in DOMAIN tv_items : tv_items[i].state = "root_state"
    /\ \A i \in DOMAIN tv_items :
          tv_items[i].state \notin {"ignored", "root_state"}
              => tv_items[i].state = "unchecked"

\* C39: update_check_state(item, s) on an item that is neither ignored nor
\* the root sets the item and every non-ignored item below it to s and leaves
\* every other item (ancestors and siblings included) as it was.
C39_UpdateSetsSubtreeOnly ==
    [][\A item_id \in DOMAIN tv_items, s \in CheckStates :
          (Togglable(tv_items, item_id) /\ TvUpdateCheckState(item_id, s))
              => /\ DOMAIN tv_items' = DOMAIN tv_items
                 /\ \A j \in DOMAIN tv_items :
                       IF j \in TvSubtree(tv_items, item_id)
                          /\ tv_items[j].state # "ignored"
                       THEN tv_items'[j] = [tv_items[j] EXCEPT !.state = s]
                       ELSE tv_items'[j] = tv_items[j]]_vars

\* a directory was unchecked: its file is unchecked, its ignored file is still
\* ignored, and its sibling file is still checked
C39_Witness ==
    \E d, f, g, h \in DOMAIN tv_items :
        /\ tv_items[d].node = "b" /\ tv_items[d].state = "unchecked"
        /\ tv_items[f].node = "o" /\ tv_items[f].state = "unchecked"
        /\ tv_items[g].node = "n" /\ tv_items[g].state = "ignored"
        /\ tv_items[h].node = "a" /\ tv_items[h].state = "checked"

RECURSIVE TvAncestors(_, _)
TvAncestors(items, item) ==
    IF items[item].parent = 0 THEN {}
    ELSE {items[item].parent} \cup TvAncestors(items, items[item].parent)

\* the file items that are checked, with every item above them checked or the root
CheckedFileItems(items, missing) ==
    {i \in DOMAIN items :
        /\ items[i].state = "checked"
        /\ tv_isfile(items[i].node, missing)
        /\ \A an \in TvAncestors(items, i) : items[an].state \in {"checked", "root_state"}}

\* C40: get_checked_files returns exactly the file items that are "checked"
\* and all of whose ancestors are "checked" or the root; a checked file below
\* an unchecked or ignored directory is not returned, and no file is returned
\* twice.
C40_CheckedFilesExact ==
    checked_files # <<>> =>
        LET r == checked_files[1] IN
        /\ {r.files[k] : k \in DOMAIN r.files}
              = {tv_items[i].node : i \in CheckedFileItems(tv_items, r.missing)}
        /\ \A k, l \in DOMAIN r.files : r.files[k] = r.files[l] => k = l
        /\ \A i \in DOMAIN tv_items :
              (\E an \in TvAncestors(tv_items, i) :
                  tv_items[an].state \in {"unchecked", "ignored"})
                  => \A k \in DOMAIN r.files : r.files[k] # tv_items[i].node

\* a checked file below an unchecked directory was left out and the checked
\* file next to the directory was returned
C40_Witness ==
    /\ checked_files # <<>>
    /\ checked_files[1].files = <<"a">>
    /\ checked_files[1].missing = {}
    /\ \E d, f \in DOMAIN tv_items :
          /\ tv_items[d].node = "b" /\ tv_items[d].state = "unchecked"
          /\ tv_items[f].node = "o" /\ tv_items[f].state = "checked"

=============================================================================
